---- MODULE Spec2Model ----
(***************************************************************************)
(* NUX virtual machine (pkg/vm): the fetch-decode-execute loop, the two    *)
(* stacks, the byte memory and the three entry points Run, Step and        *)
(* ExecuteInstruction.                                                     *)
(*                                                                         *)
(* Representation of the Go integer types.  TLC's integers are exactly the *)
(* int32 range, so an int32 is its own value and every operator below is   *)
(* written so that no intermediate result leaves that range.  A uint32     *)
(* (the program counter, a LOAD/STORE address) is kept as the int32 with   *)
(* the same bit pattern: a negative representative stands for a value of   *)
(* 2^31 or more.  Go's int is taken to be 64 bits wide (amd64/arm64), so   *)
(* int(x) of a uint32 x is never negative.                                 *)
(***************************************************************************)
EXTENDS Integers, Sequences, FiniteSets, TLC

\* ------------------------------------------------------------ constants
MaxStackSize == 8192
MaxReturnStackSize == 1024
\* Size of the reserved memory region of NewVM.
ReservedMemorySize == 4096

MaxInt32 == 2147483647
MinInt32 == (-2147483647) - 1

OpPush == 0
OpPop == 1
OpDup == 2
OpSwap == 3
OpRoll == 4
OpRot == 5
OpAdd == 6
OpSub == 7
OpMul == 8
OpDiv == 9
OpMod == 10
OpInc == 11
OpDec == 12
OpNeg == 13
OpAnd == 14
OpOr == 15
OpXor == 16
OpNot == 17
OpShl == 18
OpEq == 19
OpLt == 20
OpGt == 21
OpCallStack == 22
OpJmp == 23
OpJz == 24
OpJnz == 25
OpCall == 26
OpRet == 27
OpLoad == 28
OpStore == 29
OpOut == 30
OpHalt == 31

\* ------------------------------------------------------------ bounds
\* Size of the reserved region handed to NewVMWithReservedMemory.
ReservedSize == 8
\* The stack depth (either stack) beyond which the model stops following a
\* program that grows a stack without limit.
DepthCap == 8200
\* How far below MaxStackSize the data stack of InitFilled starts.
FillSlack == 16

\* ------------------------------------------------------------ int32 arithmetic

\* binary.BigEndian.PutUint32(buf, uint32(value)): the four bytes, high first.
EncodeInt32(value) ==
    LET low == IF value >= 0 THEN value ELSE value - MinInt32
        top == IF value >= 0 THEN 0 ELSE 128
    IN  << top + (low \div 16777216),
           (low \div 65536) % 256,
           (low \div 256) % 256,
           low % 256 >>

\* int32(binary.BigEndian.Uint32(b)).
DecodeInt32(b) ==
    LET low == ((b[1] % 128) * 16777216) + (b[2] * 65536) + (b[3] * 256) + b[4]
    IN  IF b[1] >= 128 THEN low + MinInt32 ELSE low

\* a + b on int32, wrapping.
Add32(a, b) ==
    IF a >= 0 /\ b >= 0 /\ a > MaxInt32 - b
    THEN (a + MinInt32) + (b + MinInt32)
    ELSE IF a < 0 /\ b < 0 /\ a < MinInt32 - b
    THEN (a - MinInt32) + (b - MinInt32)
    ELSE a + b

\* -a on int32, wrapping.
Neg32(a) == IF a = MinInt32 THEN MinInt32 ELSE 0 - a

\* a - b on int32, wrapping.
Sub32(a, b) ==
    IF b = MinInt32 THEN Add32(Add32(a, MaxInt32), 1) ELSE Add32(a, 0 - b)

\* a * b on int32, wrapping: schoolbook product of the byte digits, mod 2^32.
Mul32(a, b) ==
    LET x == EncodeInt32(a)
        y == EncodeInt32(b)
        c0 == x[4] * y[4]
        c1 == (x[4] * y[3]) + (x[3] * y[4]) + (c0 \div 256)
        c2 == (x[4] * y[2]) + (x[3] * y[3]) + (x[2] * y[4]) + (c1 \div 256)
        c3 == (x[4] * y[1]) + (x[3] * y[2]) + (x[2] * y[3]) + (x[1] * y[4])
                + (c2 \div 256)
    IN  DecodeInt32(<< c3 % 256, c2 % 256, c1 % 256, c0 % 256 >>)

\* b divides a exactly (b # 0).
Divides32(a, b) ==
    IF b > 0 THEN a % b = 0
    ELSE IF b = MinInt32 THEN a \in {0, MinInt32}
    ELSE a % (0 - b) = 0

\* Div32 rounding the quotient down instead of toward zero.
Div32_Floor(a, b) ==
    IF a = MinInt32 /\ b = -1 THEN MinInt32 ELSE a \div b

\* Go's a / b on int32 (b # 0): the quotient truncated toward zero; the one
\* overflowing quotient, MinInt32 / -1, is MinInt32.
Div32(a, b) ==
    IF a = MinInt32 /\ b = -1 THEN MinInt32
    ELSE LET floor == a \div b
         IN  IF (~Divides32(a, b)) /\ ((a < 0) # (b < 0)) THEN floor + 1 ELSE floor

\* Go's a % b on int32 (b # 0): a - (a / b) * b; MinInt32 % -1 is 0.
Mod32(a, b) ==
    IF a = MinInt32 /\ b = -1 THEN 0 ELSE a - (Div32(a, b) * b)

\* ^a on int32.
Not32(a) == (-1) - a

RECURSIVE BitsOp(_, _, _, _)
\* The n low bits of x and y combined bit by bit by the truth table tt
\* (tt[p + 1][q + 1] is the result bit for the bits p of x and q of y).
BitsOp(tt, x, y, n) ==
    IF n = 0 THEN 0
    ELSE tt[(x % 2) + 1][(y % 2) + 1] + (2 * BitsOp(tt, x \div 2, y \div 2, n - 1))

Bitwise32(tt, a, b) ==
    LET x == EncodeInt32(a)
        y == EncodeInt32(b)
    IN  DecodeInt32([i \in 1..4 |-> BitsOp(tt, x[i], y[i], 8)])

And32(a, b) == Bitwise32(<< <<0, 0>>, <<0, 1>> >>, a, b)
Or32(a, b) == Bitwise32(<< <<0, 1>>, <<1, 1>> >>, a, b)
Xor32(a, b) == Bitwise32(<< <<0, 1>>, <<1, 0>> >>, a, b)

RECURSIVE ShiftLeft32(_, _)
\* a << s on int32 for a shift count 0 <= s: one doubling per bit; bits shifted
\* out of the 32-bit word are lost.
ShiftLeft32(a, s) ==
    IF s = 0 \/ a = 0 THEN a ELSE ShiftLeft32(Add32(a, a), s - 1)

\* Go's b % 32 on int32: the remainder takes the sign of b (-31 .. 31).
Rem32By32(b) == Mod32(b, 32)

\* a << uint32(b % 32): a negative remainder converts to a count of at least
\* 2^32 - 31, and Go shifts by a count of 32 or more give 0.
Shl32(a, b) ==
    LET r == Rem32By32(b)
    IN  IF r < 0 THEN 0 ELSE ShiftLeft32(a, r)


\* ------------------------------------------------------------ the VM
\* A VM value: the fields of the Go struct, plus the bytes written to stdout.
\*   stack, returnStack : sequences of int32, top last
\*   memory             : sequence of bytes; address a is memory[a + 1]
\*   pc                 : uint32 (as the int32 of the same bit pattern)
\*   out                : the bytes fmt.Printf has written to standard output

\* An error value is the chain of messages, outermost first; nil is << >>.
Nil == << >>
Errorf(msg) == << msg >>
Wrap(prefix, e) == << prefix >> \o e

\* The result of a method that returns only an error.
Return(m, e) == [vm |-> m, err |-> e]

\* int(x) >= n for a uint32 x.
UintGE(x, n) == x < 0 \/ x >= n

\* binary.BigEndian.Uint32(vm.memory[a : a+4]) converted to int32.
ReadInt32(m, a) == DecodeInt32(SubSeq(m.memory, a + 1, a + 4))

\* binary.BigEndian.PutUint32(vm.memory[a : a+4], uint32(value)).
WriteInt32(mem, a, value) ==
    LET b == EncodeInt32(value)
    IN  [i \in 1..Len(mem) |-> IF i > a /\ i <= a + 4 THEN b[i - a] ELSE mem[i]]

Push(m, value) ==
    IF Len(m.stack) >= MaxStackSize
    THEN Return(m, Errorf("stack overflow"))
    ELSE Return([m EXCEPT !.stack = Append(@, value)], Nil)

Pop(m) ==
    IF Len(m.stack) = 0
    THEN [vm |-> m, value |-> 0, err |-> Errorf("stack underflow")]
    ELSE [vm |-> [m EXCEPT !.stack = SubSeq(@, 1, Len(@) - 1)],
          value |-> m.stack[Len(m.stack)],
          err |-> Nil]

Dup(m) ==
    IF Len(m.stack) < 1
    THEN Return(m, Errorf("stack underflow: need 1 value for DUP"))
    ELSE Push(m, m.stack[Len(m.stack)])

Swap(m) ==
    IF Len(m.stack) < 2
    THEN Return(m, Errorf("stack underflow: need 2 values for SWAP"))
    ELSE LET n == Len(m.stack)
         IN  Return([m EXCEPT !.stack = [@ EXCEPT ![n] = m.stack[n - 1],
                                                  ![n - 1] = m.stack[n]]], Nil)

Roll(m) ==
    IF Len(m.stack) < 2
    THEN Return(m, Errorf("stack underflow: need 2 values for ROLL"))
    ELSE Push(m, m.stack[Len(m.stack) - 1])

Rot(m) ==
    IF Len(m.stack) < 3
    THEN Return(m, Errorf("stack underflow: need 3 values for ROT"))
    ELSE LET n == Len(m.stack)
         IN  Return([m EXCEPT !.stack = [@ EXCEPT ![n - 2] = m.stack[n - 1],
                                                  ![n - 1] = m.stack[n],
                                                  ![n] = m.stack[n - 2]]], Nil)

\* The two-operand methods pop b first, then a, and push the result.
Add(m) ==
    IF Len(m.stack) < 2
    THEN Return(m, Errorf("stack underflow: need 2 values for ADD"))
    ELSE LET pb == Pop(m)
             pa == Pop(pb.vm)
         IN  Push(pa.vm, Add32(pa.value, pb.value))

Sub(m) ==
    IF Len(m.stack) < 2
    THEN Return(m, Errorf("stack underflow: need 2 values for SUB"))
    ELSE LET pb == Pop(m)
             pa == Pop(pb.vm)
         IN  Push(pa.vm, Sub32(pa.value, pb.value))

Mul(m) ==
    IF Len(m.stack) < 2
    THEN Return(m, Errorf("stack underflow: need 2 values for MUL"))
    ELSE LET pb == Pop(m)
             pa == Pop(pb.vm)
         IN  Push(pa.vm, Mul32(pa.value, pb.value))

Div(m) ==
    IF Len(m.stack) < 2
    THEN Return(m, Errorf("stack underflow: need 2 values for DIV"))
    ELSE LET pb == Pop(m)
         IN  IF pb.value = 0
             THEN Return(pb.vm, Errorf("division by zero"))
             ELSE LET pa == Pop(pb.vm)
                  IN  Push(pa.vm, Div32(pa.value, pb.value))

Mod(m) ==
    IF Len(m.stack) < 2
    THEN Return(m, Errorf("stack underflow: need 2 values for MOD"))
    ELSE LET pb == Pop(m)
         IN  IF pb.value = 0
             THEN Return(pb.vm, Errorf("modulus by zero"))
             ELSE LET pa == Pop(pb.vm)
                  IN  Push(pa.vm, Mod32(pa.value, pb.value))

Inc32(v) == Add32(v, 1)
Dec32(v) == Sub32(v, 1)
Inc(m) ==
    IF Len(m.stack) < 1
    THEN Return(m, Errorf("stack underflow: need 1 value for INC"))
    ELSE LET p == Pop(m)
         IN  Push(p.vm, Inc32(p.value))

Dec(m) ==
    IF Len(m.stack) < 1
    THEN Return(m, Errorf("stack underflow: need 1 value for DEC"))
    ELSE LET p == Pop(m)
         IN  Push(p.vm, Dec32(p.value))

Neg(m) ==
    IF Len(m.stack) < 1
    THEN Return(m, Errorf("stack underflow: need 1 value for NEG"))
    ELSE LET p == Pop(m)
         IN  Push(p.vm, Neg32(p.value))

And(m) ==
    IF Len(m.stack) < 2
    THEN Return(m, Errorf("stack underflow: need 2 values for AND"))
    ELSE LET pb == Pop(m)
             pa == Pop(pb.vm)
         IN  Push(pa.vm, And32(pa.value, pb.value))

Or(m) ==
    IF Len(m.stack) < 2
    THEN Return(m, Errorf("stack underflow: need 2 values for OR"))
    ELSE LET pb == Pop(m)
             pa == Pop(pb.vm)
         IN  Push(pa.vm, Or32(pa.value, pb.value))

Xor(m) ==
    IF Len(m.stack) < 2
    THEN Return(m, Errorf("stack underflow: need 2 values for XOR"))
    ELSE LET pb == Pop(m)
             pa == Pop(pb.vm)
         IN  Push(pa.vm, Xor32(pa.value, pb.value))

Not(m) ==
    IF Len(m.stack) < 1
    THEN Return(m, Errorf("stack underflow: need 1 value for NOT"))
    ELSE LET p == Pop(m)
         IN  Push(p.vm, Not32(p.value))

Shl(m) ==
    IF Len(m.stack) < 2
    THEN Return(m, Errorf("stack underflow: need 2 values for SHL"))
    ELSE LET pb == Pop(m)
             pa == Pop(pb.vm)
         IN  Push(pa.vm, Shl32(pa.value, pb.value))

Eq32(a, b) == IF a = b THEN 1 ELSE 0
Lt32(a, b) == IF a < b THEN 1 ELSE 0
Gt32(a, b) == IF a > b THEN 1 ELSE 0
Eq(m) ==
    IF Len(m.stack) < 2
    THEN Return(m, Errorf("stack underflow: need 2 values for EQ"))
    ELSE LET pb == Pop(m)
             pa == Pop(pb.vm)
         IN  Push(pa.vm, Eq32(pa.value, pb.value))

Lt(m) ==
    IF Len(m.stack) < 2
    THEN Return(m, Errorf("stack underflow: need 2 values for LT"))
    ELSE LET pb == Pop(m)
             pa == Pop(pb.vm)
         IN  Push(pa.vm, Lt32(pa.value, pb.value))

Gt(m) ==
    IF Len(m.stack) < 2
    THEN Return(m, Errorf("stack underflow: need 2 values for GT"))
    ELSE LET pb == Pop(m)
             pa == Pop(pb.vm)
         IN  Push(pa.vm, Gt32(pa.value, pb.value))

Load(m) ==
    IF m.pc + 4 > Len(m.memory)
    THEN Return(m, Errorf("program counter out of bounds for LOAD immediate"))
    ELSE LET address == ReadInt32(m, m.pc)
         IN  IF UintGE(address, Len(m.memory) - 3)
             THEN Return(m, Errorf("load address out of bounds"))
             ELSE Push([m EXCEPT !.pc = @ + 4], ReadInt32(m, address))

\* Store comparing the address as a signed int32: an address with the high
\* bit set passes the bounds check and nothing is written.
Store_SignedAddress(m) ==
    IF Len(m.stack) < 1
    THEN Return(m, Errorf("stack underflow: need 1 value for STORE"))
    ELSE LET p == Pop(m)
         IN  IF p.vm.pc + 4 > Len(m.memory)
             THEN Return(p.vm, Errorf("program counter out of bounds for STORE immediate"))
             ELSE LET address == ReadInt32(m, m.pc)
                  IN  IF address >= Len(m.memory) - 3
                      THEN Return(p.vm, Errorf("store address out of bounds"))
                      ELSE Return([p.vm EXCEPT
                                     !.memory = WriteInt32(@, address, p.value),
                                     !.pc = @ + 4], Nil)

Store(m) ==
    IF Len(m.stack) < 1
    THEN Return(m, Errorf("stack underflow: need 1 value for STORE"))
    ELSE LET p == Pop(m)
         IN  IF p.vm.pc + 4 > Len(m.memory)
             THEN Return(p.vm, Errorf("program counter out of bounds for STORE immediate"))
             ELSE LET address == ReadInt32(m, m.pc)
                  IN  IF UintGE(address, Len(m.memory) - 3)
                      THEN Return(p.vm, Errorf("store address out of bounds"))
                      ELSE Return([p.vm EXCEPT
                                     !.memory = WriteInt32(@, address, p.value),
                                     !.pc = @ + 4], Nil)

\* fmt.Printf("%d", value): the ASCII bytes of the decimal text, '-' first for a
\* negative value.  The digits are taken from the non-positive number, whose
\* magnitude always fits.
RECURSIVE DigitsOfNonPositive(_)
DigitsOfNonPositive(n) ==
    IF n = 0
    THEN << >>
    ELSE LET q == IF n % 10 = 0 THEN n \div 10 ELSE (n \div 10) + 1
         IN  Append(DigitsOfNonPositive(q), 48 + (q * 10 - n))

FormatD(value) ==
    IF value = 0 THEN << 48 >>
    ELSE IF value < 0 THEN << 45 >> \o DigitsOfNonPositive(value)
    ELSE DigitsOfNonPositive(-value)

\* utf8.AppendRune: the UTF-8 bytes of a valid rune.
EncodeRune(r) ==
    IF r < 128 THEN << r >>
    ELSE IF r < 2048 THEN << 192 + (r \div 64), 128 + (r % 64) >>
    ELSE IF r < 65536
         THEN << 224 + (r \div 4096), 128 + ((r \div 64) % 64), 128 + (r % 64) >>
         ELSE << 240 + (r \div 262144), 128 + ((r \div 4096) % 64),
                 128 + ((r \div 64) % 64), 128 + (r % 64) >>

\* fmt.Printf("%c", value): the value is taken as a Unicode code point; a
\* negative value (a uint64 above utf8.MaxRune), a value above 0x10FFFF and a
\* surrogate are written as utf8.RuneError, U+FFFD.
FormatC(value) ==
    IF value < 0 \/ value > 1114111 \/ (value >= 55296 /\ value <= 57343)
    THEN EncodeRune(65533)
    ELSE EncodeRune(value)

Out(m) ==
    IF Len(m.stack) < 2
    THEN Return(m, Errorf("stack underflow: need 2 values for OUT"))
    ELSE LET pf == Pop(m)
             pv == Pop(pf.vm)
         IN  Return([pv.vm EXCEPT !.out = @ \o (IF pf.value = 1
                                                THEN FormatC(pv.value)
                                                ELSE FormatD(pv.value))], Nil)

\* The public methods that ExecuteInstruction does not call: its cases for
\* these operations are written inline.
CallStack(m) ==
    IF Len(m.stack) < 1
    THEN Return(m, Errorf("stack underflow: need address for CALLSTACK"))
    ELSE LET p == Pop(m)
             addr == p.value
         IN  IF addr < 0 \/ addr >= Len(m.memory)
             THEN Return(p.vm, Errorf("invalid call address"))
             ELSE IF Len(m.returnStack) >= MaxStackSize
             THEN Return(p.vm, Errorf("return stack overflow"))
             ELSE Return([p.vm EXCEPT !.returnStack = Append(@, m.pc),
                                      !.pc = addr], Nil)

Jmp(m) ==
    IF m.pc + 4 > Len(m.memory)
    THEN Return(m, Errorf("program counter out of bounds for JMP immediate"))
    ELSE Return([m EXCEPT !.pc = ReadInt32(m, m.pc)], Nil)

Jz(m) ==
    IF Len(m.stack) < 1
    THEN Return(m, Errorf("stack underflow: need 1 value for JZ"))
    ELSE LET p == Pop(m)
         IN  IF m.pc + 4 > Len(m.memory)
             THEN Return(p.vm, Errorf("program counter out of bounds for JZ immediate"))
             ELSE Return([p.vm EXCEPT !.pc = IF p.value = 0 THEN ReadInt32(m, m.pc)
                                             ELSE @ + 4], Nil)

Jnz(m) ==
    IF Len(m.stack) < 1
    THEN Return(m, Errorf("stack underflow: need 1 value for JNZ"))
    ELSE LET p == Pop(m)
         IN  IF m.pc + 4 > Len(m.memory)
             THEN Return(p.vm, Errorf("program counter out of bounds for JNZ immediate"))
             ELSE Return([p.vm EXCEPT !.pc = IF p.value # 0 THEN ReadInt32(m, m.pc)
                                             ELSE @ + 4], Nil)

Call(m) ==
    IF m.pc + 4 > Len(m.memory)
    THEN Return(m, Errorf("program counter out of bounds for CALL immediate"))
    ELSE IF Len(m.returnStack) >= MaxStackSize
    THEN Return(m, Errorf("return stack overflow"))
    ELSE Return([m EXCEPT !.returnStack = Append(@, m.pc + 4),
                          !.pc = ReadInt32(m, m.pc)], Nil)

Ret(m) ==
    IF Len(m.returnStack) < 1
    THEN Return(m, Errorf("return stack underflow"))
    ELSE LET n == Len(m.returnStack)
         IN  Return([m EXCEPT !.pc = m.returnStack[n],
                              !.returnStack = SubSeq(@, 1, n - 1)], Nil)

\* ------------------------------------------------------------ ExecuteInstruction

\* "<name> failed: %v" around a method's error; nil stays nil.
Failed(prefix, r) ==
    IF r.err = Nil THEN Return(r.vm, Nil) ELSE Return(r.vm, Wrap(prefix, r.err))

\* The cases written inline in ExecuteInstruction; f is the VM after the fetch
\* (pc already advanced past the opcode byte).
CaseOpPush(f) ==
    IF f.pc + 3 >= Len(f.memory)
    THEN Return(f, Errorf("push failed: not enough bytes for operand"))
    ELSE Return([f EXCEPT !.stack = Append(@, ReadInt32(f, f.pc)),
                          !.pc = @ + 4], Nil)

\* CaseOpCallStack accepting every target below the end of memory.
CaseOpCallStack_NoLowerBound(f) ==
    IF Len(f.stack) < 1
    THEN Return(f, Errorf("callstack failed: stack underflow"))
    ELSE IF Len(f.returnStack) >= MaxStackSize
    THEN Return(f, Errorf("call failed: return stack overflow"))
    ELSE LET p == Pop(f)
             addr == p.value
         IN  IF addr >= Len(f.memory) \/ addr < 0
             THEN Return(p.vm, Errorf("callstack failed: address out of bounds"))
             ELSE Return([p.vm EXCEPT !.returnStack = Append(@, f.pc),
                                      !.pc = addr], Nil)

CaseOpCallStack(f) ==
    IF Len(f.stack) < 1
    THEN Return(f, Errorf("callstack failed: stack underflow"))
    ELSE IF Len(f.returnStack) >= MaxStackSize
    THEN Return(f, Errorf("call failed: return stack overflow"))
    ELSE LET p == Pop(f)
             addr == p.value
         IN  IF addr >= Len(f.memory) \/ addr < f.userMemoryStart
             THEN Return(p.vm, Errorf("callstack failed: address out of bounds"))
             ELSE Return([p.vm EXCEPT !.returnStack = Append(@, f.pc),
                                      !.pc = addr], Nil)

CaseOpJmp(f) ==
    IF f.pc + 3 >= Len(f.memory)
    THEN Return(f, Errorf("jmp failed: not enough bytes for operand"))
    ELSE Return([f EXCEPT !.pc = ReadInt32(f, f.pc)], Nil)

CaseOpJz(f) ==
    IF f.pc + 3 >= Len(f.memory)
    THEN Return(f, Errorf("jz failed: not enough bytes for operand"))
    ELSE IF Len(f.stack) < 1
    THEN Return(f, Errorf("jz failed: stack underflow"))
    ELSE LET n == Len(f.stack)
             cond == f.stack[n]
         IN  Return([f EXCEPT !.stack = SubSeq(@, 1, n - 1),
                              !.pc = IF cond = 0 THEN ReadInt32(f, f.pc) ELSE @ + 4],
                    Nil)

CaseOpJnz(f) ==
    IF f.pc + 3 >= Len(f.memory)
    THEN Return(f, Errorf("jnz failed: not enough bytes for operand"))
    ELSE IF Len(f.stack) < 1
    THEN Return(f, Errorf("jnz failed: stack underflow"))
    ELSE LET n == Len(f.stack)
             cond == f.stack[n]
         IN  Return([f EXCEPT !.stack = SubSeq(@, 1, n - 1),
                              !.pc = IF cond # 0 THEN ReadInt32(f, f.pc) ELSE @ + 4],
                    Nil)

\* CaseOpCall leaving the return address on the data stack as well.
CaseOpCall_OnDataStack(f) ==
    IF f.pc + 3 >= Len(f.memory)
    THEN Return(f, Errorf("call failed: not enough bytes for operand"))
    ELSE Return([f EXCEPT !.returnStack = Append(@, f.pc + 4),
                          !.stack = Append(@, f.pc + 4),
                          !.pc = ReadInt32(f, f.pc)], Nil)

CaseOpCall(f) ==
    IF f.pc + 3 >= Len(f.memory)
    THEN Return(f, Errorf("call failed: not enough bytes for operand"))
    ELSE Return([f EXCEPT !.returnStack = Append(@, f.pc + 4),
                          !.pc = ReadInt32(f, f.pc)], Nil)

\* CaseOpRet returning to the oldest pending address instead of the newest.
CaseOpRet_Oldest(f) ==
    IF Len(f.returnStack) = 0
    THEN Return(f, Errorf("ret failed: return stack underflow"))
    ELSE Return([f EXCEPT !.pc = f.returnStack[1],
                          !.returnStack = Tail(@)], Nil)

CaseOpRet(f) ==
    IF Len(f.returnStack) = 0
    THEN Return(f, Errorf("ret failed: return stack underflow"))
    ELSE LET n == Len(f.returnStack)
         IN  Return([f EXCEPT !.pc = f.returnStack[n],
                              !.returnStack = SubSeq(@, 1, n - 1)], Nil)

CaseOpHalt(f) == Return([f EXCEPT !.running = FALSE], Nil)

\* One fetch-decode-execute: the VM afterwards and the error returned.
ExecuteInstruction(m) ==
    IF UintGE(m.pc, Len(m.memory))
    THEN Return(m, Errorf("program counter out of bounds"))
    ELSE LET opcode == m.memory[m.pc + 1]
             f == [m EXCEPT !.pc = @ + 1]
         IN  CASE opcode = OpPush -> CaseOpPush(f)
               [] opcode = OpPop -> Failed("pop failed", Pop(f))
               [] opcode = OpDup -> Failed("dup failed", Dup(f))
               [] opcode = OpSwap -> Failed("swap failed", Swap(f))
               [] opcode = OpRoll -> Failed("roll failed", Roll(f))
               [] opcode = OpRot -> Failed("rot failed", Rot(f))
               [] opcode = OpAdd -> Failed("add failed", Add(f))
               [] opcode = OpSub -> Failed("sub failed", Sub(f))
               [] opcode = OpMul -> Failed("mul failed", Mul(f))
               [] opcode = OpDiv -> Failed("div failed", Div(f))
               [] opcode = OpMod -> Failed("mod failed", Mod(f))
               [] opcode = OpInc -> Failed("inc failed", Inc(f))
               [] opcode = OpDec -> Failed("dec failed", Dec(f))
               [] opcode = OpNeg -> Failed("neg failed", Neg(f))
               [] opcode = OpAnd -> Failed("and failed", And(f))
               [] opcode = OpOr -> Failed("or failed", Or(f))
               [] opcode = OpXor -> Failed("xor failed", Xor(f))
               [] opcode = OpNot -> Failed("not failed", Not(f))
               [] opcode = OpShl -> Failed("shl failed", Shl(f))
               [] opcode = OpEq -> Failed("eq failed", Eq(f))
               [] opcode = OpLt -> Failed("lt failed", Lt(f))
               [] opcode = OpGt -> Failed("gt failed", Gt(f))
               [] opcode = OpCallStack -> CaseOpCallStack(f)
               [] opcode = OpJmp -> CaseOpJmp(f)
               [] opcode = OpJz -> CaseOpJz(f)
               [] opcode = OpJnz -> CaseOpJnz(f)
               [] opcode = OpCall -> CaseOpCall(f)
               [] opcode = OpRet -> CaseOpRet(f)
               [] opcode = OpLoad -> Failed("load failed", Load(f))
               [] opcode = OpStore -> Failed("store failed", Store(f))
               [] opcode = OpOut -> Failed("out failed", Out(f))
               [] opcode = OpHalt -> CaseOpHalt(f)
               [] OTHER -> Return(f, Errorf("unknown opcode"))

\* ------------------------------------------------------------ construction

NewVMWithReservedMemory(program, reservedSize) ==
    [stack |-> << >>,
     returnStack |-> << >>,
     memory |-> [i \in 1..reservedSize |-> 0] \o program,
     pc |-> reservedSize,
     running |-> TRUE,
     userMemoryStart |-> reservedSize,
     out |-> << >>]

PushInstruction(value) == << OpPush >> \o EncodeInt32(value)
JmpInstruction(addr) == << OpJmp >> \o EncodeInt32(addr)
JzInstruction(addr) == << OpJz >> \o EncodeInt32(addr)
JnzInstruction(addr) == << OpJnz >> \o EncodeInt32(addr)
CallInstruction(addr) == << OpCall >> \o EncodeInt32(addr)
LoadInstruction(addr) == << OpLoad >> \o EncodeInt32(addr)
StoreInstruction(addr) == << OpStore >> \o EncodeInt32(addr)

\* NewVM: the reserved region has ReservedMemorySize bytes.
NewVM(program) == NewVMWithReservedMemory(program, ReservedMemorySize)

\* ------------------------------------------------------------ Lux: tokens
\* A token as the lexer hands it to the compiler: its type and its text.
Token(type, value) == [Type |-> type, Value |-> value]
TokenEOF == Token("TokenEOF", "")

Number(text) == Token("TokenNumber", text)
Word(text) == Token("TokenWord", text)
String(text) == Token("TokenString", text)
LBracket == Token("TokenLBracket", "[")
RBracket == Token("TokenRBracket", "]")
AtSign == Token("TokenAtSign", "@")
Semicolon == Token("TokenSemicolon", ";")

\* strings.ToUpper on ASCII text.
UpperChar(ch) ==
    LET LowerLetters == "abcdefghijklmnopqrstuvwxyz"
        UpperLetters == "ABCDEFGHIJKLMNOPQRSTUVWXYZ"
    IN  IF \E i \in 1..26 : SubSeq(LowerLetters, i, i) = ch
        THEN LET i == CHOOSE k \in 1..26 : SubSeq(LowerLetters, k, k) = ch
             IN  SubSeq(UpperLetters, i, i)
        ELSE ch

RECURSIVE ToUpper(_)
ToUpper(s) ==
    IF Len(s) = 0 THEN "" ELSE UpperChar(SubSeq(s, 1, 1)) \o ToUpper(SubSeq(s, 2, Len(s)))

\* strings.Contains(s, "::") as the index of the first "::" in s, 0 for none.
SeparatorIndex(s) ==
    IF \E i \in 1..(Len(s) - 1) : SubSeq(s, i, i + 1) = "::"
    THEN CHOOSE i \in 1..(Len(s) - 1) :
             /\ SubSeq(s, i, i + 1) = "::"
             /\ \A k \in 1..(i - 1) : SubSeq(s, k, k + 1) # "::"
    ELSE 0

ContainsSeparator(s) == SeparatorIndex(s) # 0

\* The index of a character in a table, 0 for a character not in it.
IndexIn(table, ch) ==
    IF \E i \in 1..Len(table) : SubSeq(table, i, i) = ch
    THEN CHOOSE i \in 1..Len(table) : SubSeq(table, i, i) = ch
    ELSE 0

\* The code of a character of a string literal: printable ASCII, in runs
\* that leave out the double quote (34), the backslash (92) and the
\* backquote (96).
CharCode(ch) ==
    LET ASCII32To33 == " !"
        ASCII35To91 == "#$%&'()*+,-./0123456789:;<=>?@ABCDEFGHIJKLMNOPQRSTUVWXYZ["
        ASCII93To95 == "]^_"
        ASCII97To126 == "abcdefghijklmnopqrstuvwxyz{|}~"
    IN  IF IndexIn(ASCII32To33, ch) # 0 THEN 31 + IndexIn(ASCII32To33, ch)
        ELSE IF IndexIn(ASCII35To91, ch) # 0 THEN 34 + IndexIn(ASCII35To91, ch)
        ELSE IF IndexIn(ASCII93To95, ch) # 0 THEN 92 + IndexIn(ASCII93To95, ch)
        ELSE 96 + IndexIn(ASCII97To126, ch)

\* The value of a digit in the base, -1 for a character that is none.
DigitValue(ch, base) ==
    LET HexDigits == "0123456789abcdef"
        HexDigitsUpper == "0123456789ABCDEF"
    IN  IF \E i \in 1..base :
               SubSeq(HexDigits, i, i) = ch \/ SubSeq(HexDigitsUpper, i, i) = ch
        THEN (CHOOSE i \in 1..base :
                  SubSeq(HexDigits, i, i) = ch \/ SubSeq(HexDigitsUpper, i, i) = ch) - 1
        ELSE -1

\* The digits of strconv.ParseInt read into a non-positive accumulator;
\* 1 stands for a syntax error, 2 for a magnitude beyond 2^31.
RECURSIVE ParseDigits(_, _, _)
ParseDigits(s, base, acc) ==
    IF Len(s) = 0 THEN acc
    ELSE LET d == DigitValue(SubSeq(s, 1, 1), base)
         IN  IF d < 0 THEN 1
             ELSE IF acc < ((MinInt32 + d) \div base)
                             + (IF (MinInt32 + d) % base = 0 THEN 0 ELSE 1)
                  THEN IF \A i \in 1..Len(s) : DigitValue(SubSeq(s, i, i), base) >= 0
                       THEN 2 ELSE 1
                  ELSE ParseDigits(SubSeq(s, 2, Len(s)), base, acc * base - d)

\* strconv.ParseInt(s, base, 32): an optional sign, then digits; the value
\* must lie in the int32 range.
ParseInt(s, base) ==
    LET signed == Len(s) > 0 /\ SubSeq(s, 1, 1) \in {"+", "-"}
        neg == signed /\ SubSeq(s, 1, 1) = "-"
        digits == IF signed THEN SubSeq(s, 2, Len(s)) ELSE s
        n == ParseDigits(digits, base, 0)
    IN  IF Len(digits) = 0 \/ n = 1 THEN [value |-> 0, err |-> Errorf("invalid syntax")]
        ELSE IF n = 2 \/ (~neg /\ n = MinInt32)
             THEN [value |-> 0, err |-> Errorf("value out of range")]
             ELSE [value |-> IF neg THEN n ELSE -n, err |-> Nil]

ParseNumber(token) ==
    IF token.Type # "TokenNumber"
    THEN [value |-> 0, err |-> Errorf("expected number token")]
    ELSE IF Len(token.Value) >= 2 /\ SubSeq(token.Value, 1, 2) \in {"0x", "0X"}
         THEN LET r == ParseInt(SubSeq(token.Value, 3, Len(token.Value)), 16)
              IN  [value |-> r.value,
                   err |-> IF r.err = Nil THEN Nil ELSE Wrap("invalid hex number", r.err)]
         ELSE LET r == ParseInt(token.Value, 10)
              IN  [value |-> r.value,
                   err |-> IF r.err = Nil THEN Nil ELSE Wrap("invalid number", r.err)]

\* ------------------------------------------------------------ Lux: lexer
\* Characters are strings of length one; the byte 0 that peek returns at the
\* end of the input is the empty string.
IsSpace(ch) == ch \in {" ", "\t", "\n", "\r", "\f"}

IsDigit(ch) == ch \in {"0", "1", "2", "3", "4", "5", "6", "7", "8", "9"}

IsLetter(ch) ==
    \E i \in 1..26 : SubSeq("ABCDEFGHIJKLMNOPQRSTUVWXYZ", i, i) = UpperChar(ch)

isHexDigit(ch) == IsDigit(ch) \/ UpperChar(ch) \in {"A", "B", "C", "D", "E", "F"}

NewLexer(input) == [input |-> input, pos |-> 0, line |-> 1, column |-> 1]

\* l.input[i]
ByteAt(l, i) == SubSeq(l.input, i + 1, i + 1)

\* (*Lexer).peek and (*Lexer).advance; advance returns the character that
\* peek shows, this is the lexer it leaves.
Lexer_peek(l) == IF l.pos >= Len(l.input) THEN "" ELSE ByteAt(l, l.pos)

Lexer_advance(l) ==
    IF l.pos >= Len(l.input) THEN l
    ELSE IF ByteAt(l, l.pos) = "\n"
    THEN [l EXCEPT !.pos = @ + 1, !.line = @ + 1, !.column = 1]
    ELSE [l EXCEPT !.pos = @ + 1, !.column = @ + 1]

RECURSIVE skipWhitespace(_)
skipWhitespace(l) ==
    IF l.pos < Len(l.input) /\ IsSpace(Lexer_peek(l))
    THEN skipWhitespace(Lexer_advance(l))
    ELSE l

\* What a reading method returns: the lexer it leaves, the token, the error.
Lexed(l, token, e) == [l |-> l, token |-> token, err |-> e]

\* readString reads a string literal; the loop starts behind the opening ".
readString(l) ==
    LET RECURSIVE loop(_, _)
        loop(k, str) ==
            IF k.pos >= Len(k.input) THEN Lexed(k, Token("", ""), Errorf("unclosed string"))
            ELSE IF Lexer_peek(k) = "\""
            THEN Lexed(Lexer_advance(k), String(str), Nil)
            ELSE IF Lexer_peek(k) = "\\"
            THEN IF k.pos + 1 >= Len(k.input)
                 THEN Lexed(Lexer_advance(k), Token("", ""),
                            Errorf("unexpected end of string"))
                 ELSE loop(Lexer_advance(Lexer_advance(k)),
                           str \o (CASE ByteAt(k, k.pos + 1) = "n" -> "\n"
                                     [] ByteAt(k, k.pos + 1) = "t" -> "\t"
                                     [] OTHER -> ByteAt(k, k.pos + 1)))
            ELSE loop(Lexer_advance(k), str \o Lexer_peek(k))
    IN  loop(Lexer_advance(l), "")

readSingleChar(l, tokenType) == Lexed(Lexer_advance(l), Token(tokenType, Lexer_peek(l)), Nil)

\* readComment reads ( ... ) comments, which nest; the loop starts behind the
\* opening parenthesis.
readComment(l) ==
    LET RECURSIVE loop(_, _, _)
        loop(k, comment, depth) ==
            IF k.pos >= Len(k.input)
            THEN Lexed(k, Token("", ""), Errorf("unclosed comment"))
            ELSE IF Lexer_peek(k) = "("
            THEN loop(Lexer_advance(k), comment \o "(", depth + 1)
            ELSE IF Lexer_peek(k) = ")" /\ depth - 1 = 0
            THEN Lexed(Lexer_advance(k), Token("TokenComment", comment), Nil)
            ELSE loop(Lexer_advance(k), comment \o Lexer_peek(k),
                      IF Lexer_peek(k) = ")" THEN depth - 1 ELSE depth)
    IN  loop(Lexer_advance(l), "", 1)

\* readLineComment reads comments starting with //, up to the end of the line.
readLineComment(l) ==
    LET RECURSIVE loop(_, _)
        loop(k, comment) ==
            IF k.pos < Len(k.input) /\ Lexer_peek(k) # "\n"
            THEN loop(Lexer_advance(k), comment \o Lexer_peek(k))
            ELSE Lexed(k, Token("TokenComment", comment), Nil)
    IN  loop(Lexer_advance(Lexer_advance(l)), "")

\* readNumber reads numeric literals, decimal or hexadecimal: the sign, the
\* 0x of a hexadecimal literal, and the digits.
readNumber(l) ==
    LET RECURSIVE digits(_, _, _)
        digits(k, num, hex) ==
            IF k.pos < Len(k.input)
               /\ (IF hex THEN isHexDigit(Lexer_peek(k)) ELSE IsDigit(Lexer_peek(k)))
            THEN digits(Lexer_advance(k), num \o Lexer_peek(k), hex)
            ELSE Lexed(k, Number(num), Nil)
        unsigned(k, sign) ==
            IF Lexer_peek(k) = "0" /\ k.pos + 1 < Len(k.input)
               /\ ByteAt(k, k.pos + 1) \in {"x", "X"}
            THEN digits(Lexer_advance(Lexer_advance(k)),
                        sign \o "0" \o ByteAt(k, k.pos + 1), TRUE)
            ELSE digits(k, sign, FALSE)
    IN  IF Lexer_peek(l) = "-" THEN unsigned(Lexer_advance(l), "-") ELSE unsigned(l, "")

\* readWord reads a word; the loop compares the position in the input with
\* the column the word starts at, as the code does.
readWord(l) ==
    LET RECURSIVE loop(_, _, _)
        loop(k, word, startCol) ==
            LET ch == Lexer_peek(k)
            IN  IF k.pos >= Len(k.input) THEN [l |-> k, word |-> word]
                ELSE IF IsSpace(ch) \/ ch \in {"(", ")", ";", "@", "\"", "[", "]"}
                THEN [l |-> k, word |-> word]
                ELSE IF ch = ":" /\ k.pos > startCol
                THEN loop(Lexer_advance(k), word \o ch, startCol)
                ELSE IF ch = ":" /\ k.pos + 1 < Len(k.input) /\ ByteAt(k, k.pos + 1) = ":"
                THEN loop(Lexer_advance(Lexer_advance(k)), word \o "::", startCol)
                ELSE IF IsLetter(ch) \/ IsDigit(ch)
                        \/ ch \in {"_", "+", "-", "*", "/", "%", "&", "|", "^", "!", "?",
                                   ">", "<", ".", "="}
                THEN loop(Lexer_advance(k), word \o ch, startCol)
                ELSE [l |-> k, word |-> word]
        end(r) ==
            IF r.word = "" THEN Lexed(r.l, Token("", ""), Errorf("empty word"))
            ELSE Lexed(r.l, Word(r.word), Nil)
    IN  end(loop(l, "", l.column))

isNumberStart(l, ch) ==
    \/ IsDigit(ch)
    \/ ch = "-" /\ l.pos + 1 < Len(l.input) /\ IsDigit(ByteAt(l, l.pos + 1))

\* NextToken reads and returns the next token.
NextToken(l) ==
    LET at(k) ==
            LET ch == Lexer_peek(k)
                colon == k.pos + 1 < Len(k.input) /\ ByteAt(k, k.pos + 1) = ":"
            IN  IF k.pos >= Len(k.input) THEN Lexed(k, TokenEOF, Nil)
                ELSE CASE ch = "(" -> readComment(k)
                       [] ch = "/" /\ k.pos + 1 < Len(k.input)
                          /\ ByteAt(k, k.pos + 1) = "/" -> readLineComment(k)
                       [] ch = "\"" -> readString(k)
                       [] ch = "@" -> readSingleChar(k, "TokenAtSign")
                       [] ch = ";" -> readSingleChar(k, "TokenSemicolon")
                       [] ch = "[" -> readSingleChar(k, "TokenLBracket")
                       [] ch = "]" -> readSingleChar(k, "TokenRBracket")
                       [] isNumberStart(k, ch) -> readNumber(k)
                       [] ch \in {"?", "!", "|", "#"} /\ colon ->
                               Lexed(Lexer_advance(Lexer_advance(k)), Word(ch \o ":"), Nil)
                       [] OTHER -> readWord(k)
    IN  at(skipWhitespace(l))

\* Tokenize returns all tokens from the source, comments left out, or the
\* error.
Tokenize(input) ==
    LET RECURSIVE loop(_, _)
        next(r, tokens) ==
            IF r.err # Nil THEN [tokens |-> << >>, err |-> r.err]
            ELSE IF r.token.Type = "TokenEOF"
            THEN [tokens |-> Append(tokens, r.token), err |-> Nil]
            ELSE loop(r.l, IF r.token.Type # "TokenComment" THEN Append(tokens, r.token)
                           ELSE tokens)
        loop(k, tokens) == next(NextToken(k), tokens)
    IN  loop(NewLexer(input), << >>)

\* ------------------------------------------------------------ Lux: compiler
\* Built-in words map to opcodes.
builtins ==
    [w \in {"DUP", "DROP", "SWAP", "ROLL", "ROT", "+", "-", "*", "/", "MOD", "INC",
            "DEC", "NEGATE", "AND", "OR", "XOR", "NOT", "LSHIFT", "=", "<", ">",
            "EXIT"} |->
        CASE w = "DUP" -> OpDup
          [] w = "DROP" -> OpPop
          [] w = "SWAP" -> OpSwap
          [] w = "ROLL" -> OpRoll
          [] w = "ROT" -> OpRot
          [] w = "+" -> OpAdd
          [] w = "-" -> OpSub
          [] w = "*" -> OpMul
          [] w = "/" -> OpDiv
          [] w = "MOD" -> OpMod
          [] w = "INC" -> OpInc
          [] w = "DEC" -> OpDec
          [] w = "NEGATE" -> OpNeg
          [] w = "AND" -> OpAnd
          [] w = "OR" -> OpOr
          [] w = "XOR" -> OpXor
          [] w = "NOT" -> OpNot
          [] w = "LSHIFT" -> OpShl
          [] w = "=" -> OpEq
          [] w = "<" -> OpLt
          [] w = ">" -> OpGt
          [] w = "EXIT" -> OpRet]

\* Control flow combinators.
combinators == {"?:", "?", "!:", "|:", "#:", "CALL", "DIP", "KEEP"}

\* A Go map: the empty map, and the map with one key set.
EmptyMap == [k \in {} |-> k]
MapPut(map, key, value) ==
    [k \in DOMAIN map \cup {key} |-> IF k = key THEN value ELSE map[k]]

\* The Compiler that Compile builds for a token list.
NewCompiler(tokens) ==
    [tokens |-> tokens, pos |-> 0, bytecode |-> << >>, dictionary |-> EmptyMap,
     quotations |-> << >>, currentModule |-> "", imports |-> EmptyMap,
     baseAddr |-> 4096, tempAlloc |-> 0]

\* What a compiler method leaves behind: the compiler and the error.
Done(c, e) == [c |-> c, err |-> e]

peek(c) == IF c.pos >= Len(c.tokens) THEN TokenEOF ELSE c.tokens[c.pos + 1]

\* advance returns peek(c); this is the compiler it leaves.
advance(c) == IF c.pos < Len(c.tokens) THEN [c EXCEPT !.pos = @ + 1] ELSE c

emit(c, bytes) == [c EXCEPT !.bytecode = @ \o bytes]

currentOffset(c) == Len(c.bytecode)

currentAddress(c) == c.baseAddr + Len(c.bytecode)

\* copy(c.bytecode[offset:offset+4], bytes) with a 0-based offset.
CopyAt(bytecode, offset, bytes) ==
    [i \in 1..Len(bytecode) |->
        IF i > offset /\ i <= offset + Len(bytes) THEN bytes[i - offset] ELSE bytecode[i]]

allocTemp(c, size) ==
    LET c1 == [c EXCEPT !.tempAlloc = @ + size]
    IN  IF c1.tempAlloc > ReservedMemorySize
        THEN [c |-> c1, addr |-> 0, err |-> Errorf("reserved memory overflow")]
        ELSE [c |-> c1, addr |-> c.tempAlloc, err |-> Nil]

handleModuleDirective(c) ==
    LET c1 == advance(c)
        nameToken == peek(c1)
    IN  IF nameToken.Type # "TokenWord"
        THEN Done(c1, Errorf("expected module name after MODULE"))
        ELSE Done(advance([c1 EXCEPT !.currentModule = ToUpper(nameToken.Value)]), Nil)

handleImportDirective(c) ==
    LET c1 == advance(c)
        nameToken == peek(c1)
    IN  IF nameToken.Type # "TokenWord"
        THEN Done(c1, Errorf("expected module name after IMPORT"))
        ELSE LET moduleName == ToUpper(nameToken.Value)
                 c2 == advance(c1)
             IN  IF peek(c2).Type = "TokenWord" /\ ToUpper(peek(c2).Value) = "AS"
                 THEN LET c3 == advance(c2)
                          shorthandToken == peek(c3)
                      IN  IF shorthandToken.Type # "TokenWord"
                          THEN Done(c3, Errorf("expected shorthand name after AS"))
                          ELSE Done(advance([c3 EXCEPT !.imports =
                                       MapPut(@, ToUpper(shorthandToken.Value), moduleName)]),
                                    Nil)
                 ELSE Done(c2, Nil)

\* resolveWord: the dictionary entry a word reference names, if any.
NoWord == [Name |-> "", Address |-> 0, Module |-> ""]

\* resolveWord that tries the current module before the exact name.
resolveWord_ModuleFirst(c, wordName) ==
    LET upperName == ToUpper(wordName)
        sep == SeparatorIndex(upperName)
        qualified == c.currentModule \o "::" \o upperName
        prefix == SubSeq(upperName, 1, sep - 1)
        wordPart == SubSeq(upperName, sep + 2, Len(upperName))
    IN  IF sep = 0 /\ c.currentModule # "" /\ qualified \in DOMAIN c.dictionary
        THEN [word |-> c.dictionary[qualified], ok |-> TRUE]
        ELSE IF upperName \in DOMAIN c.dictionary
        THEN [word |-> c.dictionary[upperName], ok |-> TRUE]
        ELSE IF sep # 0 /\ prefix \in DOMAIN c.imports
                /\ (c.imports[prefix] \o "::" \o wordPart) \in DOMAIN c.dictionary
        THEN [word |-> c.dictionary[c.imports[prefix] \o "::" \o wordPart], ok |-> TRUE]
        ELSE [word |-> NoWord, ok |-> FALSE]

resolveWord(c, wordName) ==
    LET upperName == ToUpper(wordName)
        sep == SeparatorIndex(upperName)
        qualified == c.currentModule \o "::" \o upperName
        prefix == SubSeq(upperName, 1, sep - 1)
        wordPart == SubSeq(upperName, sep + 2, Len(upperName))
    IN  IF upperName \in DOMAIN c.dictionary
        THEN [word |-> c.dictionary[upperName], ok |-> TRUE]
        ELSE IF sep = 0 /\ c.currentModule # "" /\ qualified \in DOMAIN c.dictionary
        THEN [word |-> c.dictionary[qualified], ok |-> TRUE]
        ELSE IF sep # 0 /\ prefix \in DOMAIN c.imports
                /\ (c.imports[prefix] \o "::" \o wordPart) \in DOMAIN c.dictionary
        THEN [word |-> c.dictionary[c.imports[prefix] \o "::" \o wordPart], ok |-> TRUE]
        ELSE [word |-> NoWord, ok |-> FALSE]

\* The bytes a string literal compiles to: PUSH ch; PUSH 1; OUT for each
\* character in turn, eleven bytes a character.
StringCode(text) ==
    [i \in 1..(11 * Len(text)) |->
        LET ch == SubSeq(text, ((i - 1) \div 11) + 1, ((i - 1) \div 11) + 1)
            code == PushInstruction(CharCode(ch)) \o PushInstruction(1) \o << OpOut >>
        IN  code[((i - 1) % 11) + 1]]

\* compileIfElse with the branch taken on the opposite condition.
compileIfElse_Inverted(c) ==
    IF Len(c.quotations) < 2
    THEN Done(c, Errorf("if-else requires two quotations"))
    ELSE LET c1 == emit(emit(c, << OpSwap >>), << OpRot >>)
             elseLabel == Len(c1.bytecode)
             c2 == emit(emit(c1, << OpJnz >>), << 0, 0, 0, 0 >>)
             c3 == emit(emit(emit(c2, << OpSwap >>), << OpPop >>), << OpCallStack >>)
             endLabel == Len(c3.bytecode)
             c4 == emit(emit(c3, << OpJmp >>), << 0, 0, 0, 0 >>)
             elseBranch == currentAddress(c4)
             c5 == emit(emit(c4, << OpPop >>), << OpCallStack >>)
             end == currentAddress(c5)
             c6 == [c5 EXCEPT !.bytecode = CopyAt(@, elseLabel + 1, EncodeInt32(elseBranch))]
         IN  Done([c6 EXCEPT !.bytecode = CopyAt(@, endLabel + 1, EncodeInt32(end))], Nil)

\* compileIfElse compiles: condition [ true ] [ false ] ?:
compileIfElse(c) ==
    IF Len(c.quotations) < 2
    THEN Done(c, Errorf("if-else requires two quotations"))
    ELSE LET c1 == emit(emit(c, << OpSwap >>), << OpRot >>)
             elseLabel == Len(c1.bytecode)
             c2 == emit(emit(c1, << OpJz >>), << 0, 0, 0, 0 >>)
             c3 == emit(emit(emit(c2, << OpSwap >>), << OpPop >>), << OpCallStack >>)
             endLabel == Len(c3.bytecode)
             c4 == emit(emit(c3, << OpJmp >>), << 0, 0, 0, 0 >>)
             elseBranch == currentAddress(c4)
             c5 == emit(emit(c4, << OpPop >>), << OpCallStack >>)
             end == currentAddress(c5)
             c6 == [c5 EXCEPT !.bytecode = CopyAt(@, elseLabel + 1, EncodeInt32(elseBranch))]
         IN  Done([c6 EXCEPT !.bytecode = CopyAt(@, endLabel + 1, EncodeInt32(end))], Nil)

\* compileIf and compileUnless with the jump of the other one.
CompileConditional_OtherJump(c, jump) ==
    LET c1 == emit(emit(c, << OpSwap >>), << IF jump = OpJz THEN OpJnz ELSE OpJz >>)
        skipLabel == currentOffset(c1)
        c2 == emit(emit(emit(c1, << 0, 0, 0, 0 >>), << OpCallStack >>), << OpJmp >>)
        endLabel == currentOffset(c2)
        c3 == emit(c2, << 0, 0, 0, 0 >>)
        skip == currentAddress(c3)
        c4 == emit(c3, << OpPop >>)
        end == currentAddress(c4)
        c5 == [c4 EXCEPT !.bytecode = CopyAt(@, skipLabel, EncodeInt32(skip))]
    IN  Done([c5 EXCEPT !.bytecode = CopyAt(@, endLabel, EncodeInt32(end))], Nil)

\* compileIf (jump = OpJz) and compileUnless (jump = OpJnz) differ in the
\* jump alone: condition [ body ] ?   and   condition [ body ] !:
CompileConditional(c, jump) ==
    LET c1 == emit(emit(c, << OpSwap >>), << jump >>)
        skipLabel == currentOffset(c1)
        c2 == emit(emit(emit(c1, << 0, 0, 0, 0 >>), << OpCallStack >>), << OpJmp >>)
        endLabel == currentOffset(c2)
        c3 == emit(c2, << 0, 0, 0, 0 >>)
        skip == currentAddress(c3)
        c4 == emit(c3, << OpPop >>)
        end == currentAddress(c4)
        c5 == [c4 EXCEPT !.bytecode = CopyAt(@, skipLabel, EncodeInt32(skip))]
    IN  Done([c5 EXCEPT !.bytecode = CopyAt(@, endLabel, EncodeInt32(end))], Nil)

compileIf(c) == CompileConditional(c, OpJz)

compileUnless(c) == CompileConditional(c, OpJnz)

\* compileWhile without the DUP in front of the condition.
compileWhile_NoDup(c) ==
    LET a1 == allocTemp(c, 4)
        a2 == allocTemp(a1.c, 4)
        tempCondAddr == a1.addr
        tempBodyAddr == a2.addr
        c1 == emit(emit(a2.c, StoreInstruction(tempBodyAddr)), StoreInstruction(tempCondAddr))
        loopStart == currentAddress(c1)
        c2 == emit(emit(emit(c1, LoadInstruction(tempCondAddr)),
                        << OpCallStack >>), << OpJz >>)
        exitLabel == currentOffset(c2)
        c3 == emit(emit(emit(emit(c2, << 0, 0, 0, 0 >>), LoadInstruction(tempBodyAddr)),
                        << OpCallStack >>), JmpInstruction(loopStart))
        exit == currentAddress(c3)
    IN  IF a1.err # Nil THEN Done(a1.c, a1.err)
        ELSE IF a2.err # Nil THEN Done(a2.c, a2.err)
        ELSE Done([c3 EXCEPT !.bytecode = CopyAt(@, exitLabel, EncodeInt32(exit))], Nil)

\* compileWhile compiles: [ condition ] [ body ] |:
compileWhile(c) ==
    LET a1 == allocTemp(c, 4)
        a2 == allocTemp(a1.c, 4)
        tempCondAddr == a1.addr
        tempBodyAddr == a2.addr
        c1 == emit(emit(a2.c, StoreInstruction(tempBodyAddr)), StoreInstruction(tempCondAddr))
        loopStart == currentAddress(c1)
        c2 == emit(emit(emit(emit(c1, << OpDup >>), LoadInstruction(tempCondAddr)),
                        << OpCallStack >>), << OpJz >>)
        exitLabel == currentOffset(c2)
        c3 == emit(emit(emit(emit(c2, << 0, 0, 0, 0 >>), LoadInstruction(tempBodyAddr)),
                        << OpCallStack >>), JmpInstruction(loopStart))
        exit == currentAddress(c3)
    IN  IF a1.err # Nil THEN Done(a1.c, a1.err)
        ELSE IF a2.err # Nil THEN Done(a2.c, a2.err)
        ELSE Done([c3 EXCEPT !.bytecode = CopyAt(@, exitLabel, EncodeInt32(exit))], Nil)

\* compileTimes with an exit that pops the counter only.
compileTimes_OnePop(c) ==
    LET a1 == allocTemp(c, 4)
        a2 == allocTemp(a1.c, 4)
        tempQuotAddr == a1.addr
        tempCountAddr == a2.addr
        loopStart == currentAddress(a2.c)
        c1 == emit(emit(a2.c, << OpDup >>), << OpJz >>)
        exitLabel == currentOffset(c1)
        c2 == emit(emit(emit(emit(c1, << 0, 0, 0, 0 >>), << OpDec >>),
                        StoreInstruction(tempCountAddr)), StoreInstruction(tempQuotAddr))
        c3 == emit(emit(c2, LoadInstruction(tempQuotAddr)), << OpCallStack >>)
        c4 == emit(emit(emit(c3, LoadInstruction(tempQuotAddr)),
                        LoadInstruction(tempCountAddr)), JmpInstruction(loopStart))
        exit == currentAddress(c4)
        c5 == emit(c4, << OpPop >>)
    IN  IF a1.err # Nil THEN Done(a1.c, a1.err)
        ELSE IF a2.err # Nil THEN Done(a2.c, a2.err)
        ELSE Done([c5 EXCEPT !.bytecode = CopyAt(@, exitLabel, EncodeInt32(exit))], Nil)

\* compileTimes compiles: [ body ] n #:
compileTimes(c) ==
    LET a1 == allocTemp(c, 4)
        a2 == allocTemp(a1.c, 4)
        tempQuotAddr == a1.addr
        tempCountAddr == a2.addr
        loopStart == currentAddress(a2.c)
        c1 == emit(emit(a2.c, << OpDup >>), << OpJz >>)
        exitLabel == currentOffset(c1)
        c2 == emit(emit(emit(emit(c1, << 0, 0, 0, 0 >>), << OpDec >>),
                        StoreInstruction(tempCountAddr)), StoreInstruction(tempQuotAddr))
        c3 == emit(emit(c2, LoadInstruction(tempQuotAddr)), << OpCallStack >>)
        c4 == emit(emit(emit(c3, LoadInstruction(tempQuotAddr)),
                        LoadInstruction(tempCountAddr)), JmpInstruction(loopStart))
        exit == currentAddress(c4)
        c5 == emit(emit(c4, << OpPop >>), << OpPop >>)
    IN  IF a1.err # Nil THEN Done(a1.c, a1.err)
        ELSE IF a2.err # Nil THEN Done(a2.c, a2.err)
        ELSE Done([c5 EXCEPT !.bytecode = CopyAt(@, exitLabel, EncodeInt32(exit))], Nil)

\* compileDip compiles: [body] dip
compileDip(c) == Done(emit(c, << OpCallStack >>), Nil)

\* compileKeep without the copy of x: the quotation is called on x itself.
compileKeep_NoCopy(c) == Done(emit(c, << OpCallStack >>), Nil)

\* compileKeep compiles: x [ quot ] keep
compileKeep(c) ==
    Done(emit(emit(emit(emit(c, << OpSwap >>), << OpDup >>), << OpRot >>),
              << OpCallStack >>), Nil)

\* compileCombinator compiles control flow combinators.
compileCombinator(c, name) ==
    LET n == ToUpper(name)
    IN  CASE n = "CALL" -> Done(emit(c, << OpCallStack >>), Nil)
          [] n = "?:" -> compileIfElse(c)
          [] n = "?" -> compileIf(c)
          [] n = "!:" -> compileUnless(c)
          [] n = "|:" -> compileWhile(c)
          [] n = "#:" -> compileTimes(c)
          [] n = "DIP" -> compileDip(c)
          [] n = "KEEP" -> compileKeep(c)
          [] OTHER -> Done(c, Errorf("unknown combinator"))

\* A new entry of c.quotations.
Quotation(tempAddr) == [Address |-> 0, EndAddr |-> 0, Code |-> << >>, TempAddr |-> tempAddr]

\* compileToken compiles a single token of the main body or of a definition.
compileToken(c, token) ==
    CASE token.Type = "TokenNumber" ->
            LET p == ParseNumber(token)
            IN  IF p.err # Nil THEN Done(c, p.err)
                ELSE Done(emit(emit(c, << OpPush >>), EncodeInt32(p.value)), Nil)
      [] token.Type = "TokenString" -> Done(emit(c, StringCode(token.Value)), Nil)
      [] token.Type = "TokenWord" ->
            LET wordName == ToUpper(token.Value)
                r == resolveWord(c, wordName)
            IN  IF wordName = "."
                THEN Done(emit(emit(emit(c, << OpPush >>), EncodeInt32(0)), << OpOut >>), Nil)
                ELSE IF wordName = "EMIT"
                THEN Done(emit(emit(emit(c, << OpPush >>), EncodeInt32(1)), << OpOut >>), Nil)
                ELSE IF r.ok
                THEN Done(emit(emit(c, << OpCall >>), EncodeInt32(r.word.Address)), Nil)
                ELSE IF wordName \in combinators
                THEN compileCombinator(c, wordName)
                ELSE IF wordName \in DOMAIN builtins
                THEN Done(emit(c, << builtins[wordName] >>), Nil)
                ELSE Done(c, Errorf("unknown word"))
      [] token.Type = "TokenLBracket" ->
            LET tempAddr == currentAddress(c) + 5
                c1 == [c EXCEPT !.quotations = Append(@, Quotation(tempAddr))]
            IN  Done(emit(emit(c1, << OpPush >>), EncodeInt32(tempAddr)), Nil)
      [] token.Type = "TokenRBracket" -> Done(c, Errorf("unexpected ]"))
      [] OTHER -> Done(c, Errorf("unexpected token type"))

\* quot.Code = append(quot.Code, bytes...) for the quotation at quotIndex.
AppendCode(c, quotIndex, bytes) ==
    [c EXCEPT !.quotations[quotIndex].Code = @ \o bytes]

\* compileQuotationCombinator compiles a combinator within a quotation.
compileQuotationCombinator(c, name, quotIndex) ==
    LET n == ToUpper(name)
    IN  CASE n = "DIP" -> Done(AppendCode(c, quotIndex, << OpCallStack >>), Nil)
          [] n = "KEEP" ->
                Done(AppendCode(c, quotIndex, << OpSwap, OpDup, OpRot, OpCallStack >>), Nil)
          [] n = "CALL" -> Done(AppendCode(c, quotIndex, << OpCallStack >>), Nil)
          [] OTHER -> Done(c, Errorf("combinator not yet supported in quotations"))

\* The body of a quotation.  compileQuotation (main body) and
\* compileQuotationInDefinition (word definition) run the same loop over the
\* tokens up to the closing bracket; inDefinition tells them apart: it picks
\* the function a nested [ recurses into and the error a ; gets, and only
\* compileQuotationInDefinition counts a nested [ into its depth.
RECURSIVE CompileQuotationBody(_, _), QuotationLoop(_, _, _, _)
\* The end of a quotation without the test for the closing bracket.
CloseQuotation_AtEnd(r, quotIndex) ==
    IF r.err # Nil THEN r
    ELSE Done(advance(AppendCode(r.c, quotIndex, << OpRet >>)), Nil)

\* Behind the loop: its error, or the closing bracket and the RET.
CloseQuotation(r, quotIndex) ==
    IF r.err # Nil THEN r
    ELSE IF peek(r.c).Type # "TokenRBracket"
    THEN Done(r.c, Errorf("unclosed quotation"))
    ELSE Done(advance(AppendCode(r.c, quotIndex, << OpRet >>)), Nil)

CompileQuotationBody(c, inDefinition) ==
    IF Len(c.quotations) < 1 THEN Done(c, Errorf("no quotation started for ["))
    ELSE CloseQuotation(QuotationLoop(c, Len(c.quotations), 1, inDefinition),
                        Len(c.quotations))

\* Behind a step of the loop that returns an error: the error ends the
\* function, and otherwise the loop goes on.
QuotationNext(r, quotIndex, depth, inDefinition) ==
    IF r.err # Nil THEN r ELSE QuotationLoop(r.c, quotIndex, depth, inDefinition)

QuotationLoop(c, quotIndex, depth, inDefinition) ==
    LET token == peek(c)
        upperVal == ToUpper(token.Value)
    IN  IF ~(c.pos < Len(c.tokens) /\ depth > 0 /\ token.Type # "TokenEOF")
        THEN Done(c, Nil)
        ELSE CASE token.Type = "TokenLBracket" ->
                    LET tempAddr == 4096 + Len(c.quotations) * 256
                        c1 == AppendCode(c, quotIndex, << OpPush >> \o EncodeInt32(tempAddr))
                        c2 == [c1 EXCEPT !.quotations = Append(@, Quotation(tempAddr))]
                    IN  QuotationNext(CompileQuotationBody(advance(c2), inDefinition),
                                      quotIndex,
                                      IF inDefinition THEN depth + 1 ELSE depth,
                                      inDefinition)
               [] token.Type = "TokenRBracket" ->
                    IF depth - 1 = 0 THEN Done(c, Nil)
                    ELSE Done(c, Errorf("unexpected ] in quotation"))
               [] token.Type = "TokenSemicolon" /\ inDefinition ->
                    Done(c, Errorf("unexpected ; inside quotation"))
               [] token.Type = "TokenNumber" ->
                    LET p == ParseNumber(token)
                    IN  IF p.err # Nil THEN Done(c, p.err)
                        ELSE QuotationLoop(
                                 advance(AppendCode(c, quotIndex, PushInstruction(p.value))),
                                 quotIndex, depth, inDefinition)
               [] token.Type = "TokenWord" ->
                    IF upperVal = "."
                    THEN QuotationLoop(
                             advance(AppendCode(c, quotIndex,
                                                PushInstruction(0) \o << OpOut >>)),
                             quotIndex, depth, inDefinition)
                    ELSE IF upperVal = "EMIT"
                    THEN QuotationLoop(
                             advance(AppendCode(c, quotIndex,
                                                PushInstruction(1) \o << OpOut >>)),
                             quotIndex, depth, inDefinition)
                    ELSE IF upperVal \in DOMAIN builtins
                    THEN QuotationLoop(
                             advance(AppendCode(c, quotIndex, << builtins[upperVal] >>)),
                             quotIndex, depth, inDefinition)
                    ELSE IF upperVal \in combinators
                    THEN QuotationNext(
                             compileQuotationCombinator(advance(c), upperVal, quotIndex),
                             quotIndex, depth, inDefinition)
                    ELSE IF resolveWord(c, upperVal).ok
                    THEN QuotationLoop(
                             advance(AppendCode(c, quotIndex,
                                 CallInstruction(resolveWord(c, upperVal).word.Address))),
                             quotIndex, depth, inDefinition)
                    ELSE Done(c, Errorf("unknown word in quotation"))
               [] token.Type = "TokenString" ->
                    QuotationLoop(advance(AppendCode(c, quotIndex, StringCode(token.Value))),
                                  quotIndex, depth, inDefinition)
               [] OTHER -> Done(c, Errorf("invalid token in quotation"))

\* compileQuotation compiles a [ ... ] block of the main body.
compileQuotation(c) == CompileQuotationBody(c, FALSE)

\* compileQuotationInDefinition compiles a [ ... ] block of a word definition.
compileQuotationInDefinition(c) == CompileQuotationBody(c, TRUE)

\* The loop of compileWordDefinition over the tokens of the body, up to and
\* including the semicolon.  WordBodyNext is the loop behind a step that
\* returns an error: the error ends the function; otherwise the loop goes on,
\* behind the token if the step left it in place.
RECURSIVE WordBodyLoop(_)
WordBodyNext(r, skipToken) ==
    IF r.err # Nil THEN r
    ELSE WordBodyLoop(IF skipToken THEN advance(r.c) ELSE r.c)

WordBodyLoop(c) ==
    LET token == peek(c)
    IN  CASE token.Type = "TokenEOF" ->
                Done(c, Errorf("unexpected end of file in word definition"))
          [] token.Type = "TokenSemicolon" -> Done(advance(c), Nil)
          [] token.Type = "TokenAtSign" ->
                Done(c, Errorf("nested word definitions not allowed"))
          [] token.Type = "TokenLBracket" ->
                LET tempAddr == currentAddress(c) + 5
                    c1 == [c EXCEPT !.quotations = Append(@, Quotation(tempAddr))]
                    c2 == emit(emit(c1, << OpPush >>), EncodeInt32(tempAddr))
                IN  WordBodyNext(compileQuotationInDefinition(advance(c2)), FALSE)
          [] token.Type = "TokenRBracket" ->
                Done(c, Errorf("unexpected ] in word definition"))
          [] OTHER -> WordBodyNext(compileToken(c, token), TRUE)

\* The end of compileWordDefinition with a dictionary that keeps the entry
\* it has.
DefineWord_KeepFirst(r, wordName, wordAddress) ==
    IF r.err # Nil THEN r
    ELSE Done([emit(r.c, << OpRet >>) EXCEPT !.dictionary =
                   IF wordName \in DOMAIN @ THEN @
                   ELSE MapPut(@, wordName, [Name |-> wordName, Address |-> wordAddress,
                                             Module |-> r.c.currentModule])], Nil)

\* The end of compileWordDefinition, behind the loop over the body: the RET
\* and the dictionary entry.
DefineWord(r, wordName, wordAddress) ==
    IF r.err # Nil THEN r
    ELSE Done([emit(r.c, << OpRet >>) EXCEPT !.dictionary =
                   MapPut(@, wordName, [Name |-> wordName, Address |-> wordAddress,
                                        Module |-> r.c.currentModule])], Nil)

\* compileWordDefinition with the dictionary entry written before the body
\* is compiled.
compileWordDefinition_EntryFirst(c) ==
    LET c1 == advance(c)
        nameToken == peek(c1)
        c2 == advance(c1)
        baseName == ToUpper(nameToken.Value)
        wordName == IF c2.currentModule # "" /\ ~ContainsSeparator(baseName)
                    THEN c2.currentModule \o "::" \o baseName
                    ELSE baseName
        c3 == [c2 EXCEPT !.dictionary =
                  MapPut(@, wordName, [Name |-> wordName, Address |-> currentAddress(c2),
                                       Module |-> c2.currentModule])]
    IN  IF nameToken.Type # "TokenWord"
        THEN Done(c2, Errorf("expected word name after '@'"))
        ELSE DefineWord(WordBodyLoop(c3), wordName, currentAddress(c2))

\* compileWordDefinition compiles a word definition.
compileWordDefinition(c) ==
    LET c1 == advance(c)
        nameToken == peek(c1)
        c2 == advance(c1)
        baseName == ToUpper(nameToken.Value)
        wordName == IF c2.currentModule # "" /\ ~ContainsSeparator(baseName)
                    THEN c2.currentModule \o "::" \o baseName
                    ELSE baseName
    IN  IF nameToken.Type # "TokenWord"
        THEN Done(c2, Errorf("expected word name after '@'"))
        ELSE DefineWord(WordBodyLoop(c2), wordName, currentAddress(c2))

\* skipWordDefinition skips a word definition.
RECURSIVE SkipLoop(_, _)
SkipLoop(c, depth) ==
    LET token == peek(c)
    IN  IF token.Type = "TokenEOF" THEN c
        ELSE IF token.Type = "TokenLBracket" THEN SkipLoop(advance(c), depth + 1)
        ELSE IF token.Type = "TokenRBracket" THEN SkipLoop(advance(c), depth - 1)
        ELSE IF token.Type = "TokenSemicolon" /\ depth = 0 THEN advance(c)
        ELSE SkipLoop(advance(c), depth)

skipWordDefinition(c) == SkipLoop(advance(advance(c)), 0)

\* First pass of compile: directives and word definitions.  FirstPassNext is
\* the loop behind a step: its error ends compile, otherwise the loop goes on.
RECURSIVE FirstPass(_, _, _)
FirstPassNext(r, iterations, maxIterations) ==
    IF r.err # Nil THEN r ELSE FirstPass(r.c, iterations, maxIterations)

FirstPass(c, iterations, maxIterations) ==
    LET token == peek(c)
    IN  IF ~(c.pos < Len(c.tokens) /\ token.Type # "TokenEOF") THEN Done(c, Nil)
        ELSE IF iterations + 1 > maxIterations
        THEN Done(c, Errorf("infinite loop detected in first pass"))
        ELSE FirstPassNext(
                 IF token.Type = "TokenWord" /\ ToUpper(token.Value) = "MODULE"
                 THEN handleModuleDirective(c)
                 ELSE IF token.Type = "TokenWord" /\ ToUpper(token.Value) = "IMPORT"
                 THEN handleImportDirective(c)
                 ELSE IF token.Type = "TokenAtSign"
                 THEN compileWordDefinition(c)
                 ELSE Done(advance(c), Nil),
                 iterations + 1, maxIterations)

\* Second pass of compile: the main body and its quotations.  SecondPassNext
\* is the loop behind a step that returns an error: the error ends compile;
\* otherwise the loop goes on, behind the token if the step left it in place.
\* SecondPassQuotation is the step at a [ behind its compileToken.
RECURSIVE SecondPass(_)
SecondPassNext(r, skipToken) ==
    IF r.err # Nil THEN r
    ELSE SecondPass(IF skipToken THEN advance(r.c) ELSE r.c)

SecondPassQuotation(r) ==
    IF r.err # Nil THEN r
    ELSE SecondPassNext(compileQuotation(advance(r.c)), FALSE)

SecondPass(c) ==
    LET token == peek(c)
        upperVal == ToUpper(token.Value)
    IN  IF ~(c.pos < Len(c.tokens) /\ token.Type # "TokenEOF") THEN Done(c, Nil)
        ELSE IF token.Type = "TokenWord" /\ upperVal = "MODULE"
        THEN SecondPass(advance(advance(c)))
        ELSE IF token.Type = "TokenWord" /\ upperVal = "IMPORT"
        THEN LET c1 == advance(advance(c))
             IN  IF peek(c1).Type = "TokenWord" /\ ToUpper(peek(c1).Value) = "AS"
                 THEN SecondPass(advance(advance(c1)))
                 ELSE SecondPass(c1)
        ELSE IF token.Type = "TokenAtSign"
        THEN SecondPass(skipWordDefinition(c))
        ELSE IF token.Type = "TokenLBracket"
        THEN SecondPassQuotation(compileToken(c, token))
        ELSE SecondPassNext(compileToken(c, token), TRUE)

\* The quotations placed behind the main body, in order: each gets its real
\* address and its code is appended; addrMap takes temp address to real one.
RECURSIVE PlaceQuotations(_, _, _)
PlaceQuotations(c, i, addrMap) ==
    IF i > Len(c.quotations) THEN [c |-> c, addrMap |-> addrMap]
    ELSE LET address == currentAddress(c)
             c1 == [c EXCEPT !.quotations[i].Address = address,
                             !.bytecode = @ \o c.quotations[i].Code]
             c2 == [c1 EXCEPT !.quotations[i].EndAddr = currentAddress(c1)]
         IN  PlaceQuotations(c2, i + 1, MapPut(addrMap, c.quotations[i].TempAddr, address))

\* The positions the patching loop acts on, from j on, in a region of the
\* bytecode (0-based start, length): the bytes k of the region that equal
\* OpPush, have four bytes of the region behind them and are followed by an
\* operand found in addrMap.
PatchSites(bytecode, start, length, j, addrMap) ==
    {k \in j..(length - 5) :
        /\ bytecode[start + k + 1] = OpPush
        /\ DecodeInt32(SubSeq(bytecode, start + k + 2, start + k + 5)) \in DOMAIN addrMap}

\* The patching loop over a region, from byte j on: the loop passes over the
\* bytes it does not act on, replaces the operand at the first byte it acts
\* on, and goes on behind that byte in the bytecode so changed.
RECURSIVE PatchRegion(_, _, _, _, _)
PatchRegion(bytecode, start, length, j, addrMap) ==
    LET sites == PatchSites(bytecode, start, length, j, addrMap)
        k == CHOOSE x \in sites : \A y \in sites : x <= y
        addr == DecodeInt32(SubSeq(bytecode, start + k + 2, start + k + 5))
    IN  IF sites = {} THEN bytecode
        ELSE PatchRegion(CopyAt(bytecode, start + k + 1, EncodeInt32(addrMap[addr])),
                         start, length, k + 1, addrMap)

\* The patching of the quotation bodies, one region per quotation.
RECURSIVE PatchQuotations(_, _, _, _, _)
PatchQuotations(bytecode, quotations, i, currentPos, addrMap) ==
    IF i > Len(quotations) THEN bytecode
    ELSE PatchQuotations(
             PatchRegion(bytecode, currentPos, Len(quotations[i].Code), 0, addrMap),
             quotations, i + 1, currentPos + Len(quotations[i].Code), addrMap)

\* The end of compile, behind the placement of the quotations: the patching
\* of the main code and of the quotations, the HALT, and the target of the
\* JMP that skips the quotations.
compileEnd(placed, skipQuotationsLabel, mainEndPos) ==
    LET patched == PatchQuotations(
                       PatchRegion(placed.c.bytecode, 0, mainEndPos, 0, placed.addrMap),
                       placed.c.quotations, 1, mainEndPos, placed.addrMap)
        haltAddr == currentAddress(placed.c)
        c == [placed.c EXCEPT !.bytecode =
                 CopyAt(patched \o << OpHalt >>, skipQuotationsLabel + 1,
                        EncodeInt32(haltAddr))]
    IN  [bytecode |-> c.bytecode, err |-> Nil, c |-> c]

\* compile behind the second pass: the JMP that skips the quotations and
\* the placement of the quotations.
compileQuotations(p2) ==
    IF p2.err # Nil THEN [bytecode |-> << >>, err |-> p2.err, c |-> p2.c]
    ELSE compileEnd(PlaceQuotations(emit(emit(p2.c, << OpJmp >>), << 0, 0, 0, 0 >>),
                                    1, EmptyMap),
                    Len(p2.c.bytecode), Len(p2.c.bytecode) + 5)

\* compile behind the first pass: the target of the initial JMP, and the
\* second pass from the first token on.
compileMain(p1, jmpAddr, startPos) ==
    IF p1.err # Nil THEN [bytecode |-> << >>, err |-> p1.err, c |-> p1.c]
    ELSE compileQuotations(SecondPass(
             [p1.c EXCEPT !.bytecode = CopyAt(@, jmpAddr + 1,
                                              EncodeInt32(currentAddress(p1.c))),
                          !.pos = startPos]))

\* compile is the main compilation loop: the image, or the error.
compile(c) ==
    compileMain(FirstPass(emit(emit(c, << OpJmp >>), << 0, 0, 0, 0 >>),
                          0, Len(c.tokens) * 2),
                Len(c.bytecode), c.pos)

\* Compile from the token list on: the compiler is built and compile is run.
CompileTokens(tokens) == compile(NewCompiler(tokens))

\* Compile converts Lux source to bytecode: Tokenize, then compile on a new
\* Compiler.
Compile(input) ==
    LET lexed(t) ==
            IF t.err # Nil
            THEN [bytecode |-> << >>, err |-> t.err, c |-> NewCompiler(<< >>)]
            ELSE CompileTokens(t.tokens)
    IN  lexed(Tokenize(input))

\* ------------------------------------------------------------ programs
\* The bytecode images the model loads.  U is the address of the first program
\* byte; every address in an image is written relative to it.
U == ReservedSize

\* Operand values: the int32 extremes, both signs, shift counts around 32.
Vals == {MinInt32, -33, -32, -7, -1, 0, 1, 2, 31, 34, MaxInt32}

\* Every opcode byte 0x00 .. 0x1F and one byte outside the instruction set.
OpcodeBytes == 0..32

\* PUSH a; PUSH b; <op>; HALT
TwoOperandPrograms ==
    { PushInstruction(a) \o PushInstruction(b) \o << op, OpHalt >> :
        a \in Vals, b \in Vals,
        op \in {OpSwap, OpRoll, OpAdd, OpSub, OpMul, OpDiv, OpMod, OpAnd, OpOr,
                OpXor, OpShl, OpEq, OpLt, OpGt} }

\* PUSH a; <op>; HALT: one-operand instructions, and every other opcode with
\* too few operands or with its 4-byte operand cut short by the end of memory.
OneOperandPrograms ==
    { PushInstruction(a) \o << op, OpHalt >> : a \in Vals, op \in OpcodeBytes }

\* PUSH v; PUSH f; OUT; HALT
OutValues ==
    Vals \cup {10, 42, 72, 127, 128, 233, 255, 256, 321, 2047, 2048, 55296, 57343,
               65533, 65536, 1114111, 1114112, -2147483647, 1000000000}

OutPrograms ==
    { PushInstruction(v) \o PushInstruction(f) \o << OpOut, OpHalt >> :
        v \in OutValues, f \in {0, 1, 2} }

\* PUSH c; <jump> t; PUSH 5; HALT; sub: PUSH 6; RET        (sub = U + 16)
JumpTargets ==
    {U + 10, U + 15, U + 16, U + 21, U + 22, U + 23, MaxInt32, -1, MinInt32}

JumpPrograms ==
    { PushInstruction(c) \o << op >> \o EncodeInt32(t) \o PushInstruction(5)
        \o << OpHalt >> \o PushInstruction(6) \o << OpRet >> :
        c \in {0, 1}, op \in {OpJmp, OpJz, OpJnz, OpCall}, t \in JumpTargets }

\* PUSH t; CALLSTACK; PUSH 5; HALT; sub: PUSH 6; RET       (sub = U + 12)
CallStackTargets ==
    {0, U - 1, U + 6, U + 11, U + 12, U + 17, U + 18, U + 19, MaxInt32, -1,
     MinInt32}

CallStackPrograms ==
    { PushInstruction(t) \o << OpCallStack >> \o PushInstruction(5)
        \o << OpHalt >> \o PushInstruction(6) \o << OpRet >> :
        t \in CallStackTargets }

\* CALL A; HALT; A: PUSH B; CALLSTACK; RET; B: CALL C; RET; C: PUSH v; RET
NestedCallPrograms ==
    { CallInstruction(U + 6) \o << OpHalt >>
        \o PushInstruction(U + 13) \o << OpCallStack, OpRet >>
        \o CallInstruction(U + 19) \o << OpRet >>
        \o PushInstruction(v) \o << OpRet >> : v \in {7} }

\* PUSH v; STORE a; LOAD a or LOAD 0; HALT                 (16 bytes)
Addresses ==
    {0, 4, U + 12, U + 13, U + 15, U + 16, MaxInt32 - 3, MaxInt32, -4, -1,
     MinInt32}

LoadStorePrograms ==
    { PushInstruction(v) \o StoreInstruction(a)
        \o LoadInstruction(IF same THEN a ELSE 0) \o << OpHalt >> :
        v \in {-1, 258}, a \in Addresses, same \in BOOLEAN }

\* PUSH 1; PUSH 2; PUSH 3; ROT; PUSH 0; OUT; HALT
\* PUSH 7; PUSH 0; DIV; PUSH 1; OUT; HALT  (instructions after a trapping one)
\* and the short images: HALT alone, no HALT, PUSH without operand, POP first.
OtherPrograms ==
    { PushInstruction(1) \o PushInstruction(2) \o PushInstruction(3) \o << OpRot >>
        \o PushInstruction(0) \o << OpOut, OpHalt >>,
      PushInstruction(7) \o PushInstruction(0) \o << OpDiv >> \o PushInstruction(1)
        \o << OpOut, OpHalt >>,
      << OpHalt >>,
      PushInstruction(1),
      << OpPush >>,
      << OpPop, OpRet >> }

Programs ==
    TwoOperandPrograms \cup OneOperandPrograms \cup OutPrograms \cup JumpPrograms
      \cup CallStackPrograms \cup NestedCallPrograms \cup LoadStorePrograms
      \cup OtherPrograms

\* Programs that never stop growing a stack.
\*   L: PUSH 1; JMP L
\*   L: CALL L
\*   L: PUSH L; CALLSTACK
\*   PUSH 1; L: DUP; JMP L
GrowingPrograms ==
    { PushInstruction(1) \o JmpInstruction(U),
      CallInstruction(U),
      PushInstruction(U) \o << OpCallStack >>,
      PushInstruction(1) \o << OpDup >> \o JmpInstruction(U + 5) }

\* ------------------------------------------------------------ Lux sources
\* The Lux sources the model compiles, as the token lists Tokenize makes of
\* them: the tokens of the text, then the EOF token.
Tokenized(tokens) == tokens \o << TokenEOF >>

\* The Number token of a decimal literal.
Numeral(n) == Number(ToString(n))

\* The source text [ body ].
Quoted(body) == << LBracket >> \o body \o << RBracket >>

\* The source text @name body ;
Definition(name, body) == << AtSign, Word(name) >> \o body \o << Semicolon >>

\* Quotation bodies whose effect shows on the stack or in the output.
PushSeven == << Number("7") >>
PrintEight == << Number("8"), Word(".") >>
AddOne == << Number("1"), Word("+") >>
EmitA == << Number("65"), Word("EMIT") >>
Nothing == << >>
Bodies == {PushSeven, PrintEight, AddOne, EmitA, Nothing}

\* Condition values, 4121 among them: the placeholder of the second quotation
\* behind the two literals of IfElseSource.
Conds == {0, 1, -1, 2, 4121, MinInt32, MaxInt32}

\* 9 cond [ t ] [ f ] ?: 3
IfElseSource(cond, t, f) ==
    Tokenized(<< Number("9"), Numeral(cond) >> \o Quoted(t) \o Quoted(f)
              \o << Word("?:"), Number("3") >>)

IfElseSources == {IfElseSource(cond, t, f) : cond \in Conds, t \in Bodies, f \in Bodies}

\* 9 cond [ body ] word 3, the word being ? or !:
IfSource(cond, body, word) ==
    Tokenized(<< Number("9"), Numeral(cond) >> \o Quoted(body)
              \o << Word(word), Number("3") >>)

IfSources == {IfSource(cond, body, word) : cond \in Conds, body \in Bodies, word \in {"?", "!:"}}

\* The largest count of a loop.
MaxCount == 5

\* n [ 0 > ] [ DUP 1 - ] |:
CountDownSource(n) ==
    Tokenized(<< Numeral(n) >> \o Quoted(<< Number("0"), Word(">") >>)
              \o Quoted(<< Word("DUP"), Number("1"), Word("-") >>) \o << Word("|:") >>)

\* 9 n [ limit < ] [ DUP . 1 + ] |: 3
CountUpSource(n, limit) ==
    Tokenized(<< Number("9"), Numeral(n) >>
              \o Quoted(<< Numeral(limit), Word("<") >>)
              \o Quoted(<< Word("DUP"), Word("."), Number("1"), Word("+") >>)
              \o << Word("|:"), Number("3") >>)

WhileSources ==
    {CountDownSource(n) : n \in 0..MaxCount}
    \cup {CountUpSource(n, limit) : n \in 0..MaxCount, limit \in {0, 3}}

\* 9 0 [ body ] n #: 3
TimesSource(body, n) ==
    Tokenized(<< Number("9"), Number("0") >> \o Quoted(body)
              \o << Numeral(n), Word("#:"), Number("3") >>)

TimesSources == {TimesSource(body, n) : body \in Bodies, n \in 0..MaxCount}

\* 9 x [ body ] keep 3
KeepSource(x, body) ==
    Tokenized(<< Number("9"), Numeral(x) >> \o Quoted(body)
              \o << Word("keep"), Number("3") >>)

KeepValues == {5, 0, -1, 1000, MaxInt32}

KeepSources == {KeepSource(x, body) : x \in KeepValues, body \in Bodies}

\* A user word named like the builtin DUP, used in the main body, in the body
\* of a later definition, in a quotation of the main body and in a quotation
\* of a later definition.
\*   @dup 7 ;  1 dup
\*   @dup 7 ;  @w dup ;  1 w
\*   @dup 7 ;  1 [ dup ] call
\*   @dup 7 ;  @w [ dup ] call ;  1 w
ShadowingWord == Definition("dup", << Number("7") >>)

ShadowInMain == Tokenized(ShadowingWord \o << Number("1"), Word("dup") >>)

ShadowInDefinition ==
    Tokenized(ShadowingWord \o Definition("w", << Word("dup") >>)
              \o << Number("1"), Word("w") >>)

ShadowInQuotation ==
    Tokenized(ShadowingWord \o << Number("1") >> \o Quoted(<< Word("dup") >>)
              \o << Word("call") >>)

ShadowInDefinitionQuotation ==
    Tokenized(ShadowingWord
              \o Definition("w", Quoted(<< Word("dup") >>) \o << Word("call") >>)
              \o << Number("1"), Word("w") >>)

\* A user word with a name of its own, in the same four places.
\*   @seven 7 ;  1 seven                  @seven 7 ;  @w seven ;  1 w
\*   @seven 7 ;  1 [ seven ] call         @seven 7 ;  @w [ seven ] call ;  1 w
PlainWord == Definition("seven", << Number("7") >>)

PlainSources ==
    { Tokenized(PlainWord \o << Number("1"), Word("seven") >>),
      Tokenized(PlainWord \o Definition("w", << Word("seven") >>)
                \o << Number("1"), Word("w") >>),
      Tokenized(PlainWord \o << Number("1") >> \o Quoted(<< Word("seven") >>)
                \o << Word("call") >>),
      Tokenized(PlainWord
                \o Definition("w", Quoted(<< Word("seven") >>) \o << Word("call") >>)
                \o << Number("1"), Word("w") >>) }

WordSources ==
    {ShadowInMain, ShadowInDefinition, ShadowInQuotation, ShadowInDefinitionQuotation}
    \cup PlainSources

\* The text of a long string literal, cut to n characters.
Filler(n) ==
    LET fifty == "Lorem ipsum dolor sit amet, consectetur adipiscing"
    IN  SubSeq(fifty \o fifty \o fifty \o fifty \o fifty, 1, n)

\* A string literal of 162 characters puts the PUSH of the quotation at byte
\* 1787 of the image, so its placeholder is 4096 + 1787 + 5 = 5888 = 0x1700;
\* the main body ends with a literal whose low three bytes are zero.
\*   "...162..." [ ] call "...24..." 16777216
LongSourceEndingWithLiteral ==
    Tokenized(<< String(Filler(162)) >> \o Quoted(Nothing)
              \o << Word("call"), String(Filler(24)), Number("16777216") >>)

\* A string literal of 230 characters puts the PUSH of the quotation at byte
\* 2555 of the image, so its placeholder is 6656 = 0x1A00; 0 w follows.
\*   @w 1 . ;  "...230..." 1 dup drop drop [ ] call 0 w
LongSourceCallingWord ==
    Tokenized(Definition("w", << Number("1"), Word(".") >>)
              \o << String(Filler(230)), Number("1"), Word("dup"), Word("drop"),
                    Word("drop") >>
              \o Quoted(Nothing) \o << Word("call"), Number("0"), Word("w") >>)

\* Other sources: the empty one, definitions and modules, strings, hex
\* literals, dip, and sources that do not compile.
OtherSources ==
    { Tokenized(<< >>),
      Tokenized(Definition("sq", << Word("dup"), Word("*") >>)
                \o << Number("3"), Word("sq"), Word(".") >>),
      Tokenized(<< Number("4") >> \o Definition("double", << Number("2"), Word("*") >>)
                \o Definition("quad", << Word("double"), Word("double") >>)
                \o << Word("quad") >>),
      Tokenized(<< Word("MODULE"), Word("math") >>
                \o Definition("sq", << Word("dup"), Word("*") >>)
                \o << Word("IMPORT"), Word("math"), Word("AS"), Word("m"),
                      Number("0x10"), Word("m::sq"), Word(".") >>),
      Tokenized(<< String("Hi!"), Number("1"), Number("2") >> \o Quoted(AddOne)
                \o << Word("dip") >>),
      Tokenized(Definition("twice", << Word("dup") >> \o Quoted(AddOne)
                                    \o << Word("dip") >>)
                \o << Number("6"), Word("twice") >>),
      Tokenized(Quoted(<< Number("5") >> \o Quoted(AddOne) \o << Word("dip") >>)
                \o << Word("dip") >>),
      Tokenized(<< Number("1"), Word("nosuchword") >>),
      Tokenized(<< Number("2147483648") >>),
      LongSourceEndingWithLiteral,
      LongSourceCallingWord }

\* Two modules with a word f each, 1 in module a and 2 in module b, and an
\* unqualified reference to f
\*   in the main body between the modules:  MODULE a @f 1 ; f MODULE b @f 2 ;
\*   in the main body behind both:          MODULE a @f 1 ; MODULE b @f 2 ; f
\*   in a definition of module a:   MODULE a @f 1 ; @g f ; MODULE b @f 2 ; a::g
\*   in the main body of module a, module b being empty:
\*                                          MODULE a @f 1 ; f MODULE b
ModuleA == << Word("MODULE"), Word("a") >> \o Definition("f", << Number("1") >>)
ModuleB == << Word("MODULE"), Word("b") >> \o Definition("f", << Number("2") >>)

ModuleMainBetween == Tokenized(ModuleA \o << Word("f") >> \o ModuleB)
ModuleMainBehind == Tokenized(ModuleA \o ModuleB \o << Word("f") >>)
ModuleInDefinition ==
    Tokenized(ModuleA \o Definition("g", << Word("f") >>) \o ModuleB \o << Word("a::g") >>)
ModuleMainBeforeEmpty ==
    Tokenized(ModuleA \o << Word("f"), Word("MODULE"), Word("b") >>)

ModuleSources ==
    {ModuleMainBetween, ModuleMainBehind, ModuleInDefinition, ModuleMainBeforeEmpty}

\* The deepest nesting of quotations.
MaxNesting == 3

\* A quotation nested d deep that leaves 7 when called:
\*   [ 7 ]     [ [ 7 ] call ]     [ [ [ 7 ] call ] call ]
RECURSIVE Nest(_)
Nest(d) ==
    IF d = 1 THEN Quoted(PushSeven) ELSE Quoted(Nest(d - 1) \o << Word("call") >>)

\* Nest(d) call in the main body, and in the body of a word w that is called.
NestedInMain(d) == Tokenized(Nest(d) \o << Word("call") >>)
NestedInDefinition(d) ==
    Tokenized(Definition("w", Nest(d) \o << Word("call") >>) \o << Word("w") >>)

NestedSources ==
    {NestedInMain(d) : d \in 1..MaxNesting} \cup {NestedInDefinition(d) : d \in 1..MaxNesting}

\* Two definitions of one qualified name, 1 the earlier and 2 the later, and
\* references to the name in the main body.
\*   @f 1 ; @f 2 ; f          f @f 1 ; @f 2 ;          @f 1 ; f @f 2 ; f
\*   @f 1 ; @F 2 ; f          MODULE m @f 1 ; @m::f 2 ; f
DefinedTwice == Definition("f", << Number("1") >>) \o Definition("f", << Number("2") >>)

TwiceThenUse == Tokenized(DefinedTwice \o << Word("f") >>)
UseThenTwice == Tokenized(<< Word("f") >> \o DefinedTwice)
TwiceAroundUse ==
    Tokenized(Definition("f", << Number("1") >>) \o << Word("f") >>
              \o Definition("f", << Number("2") >>) \o << Word("f") >>)
TwiceOtherCase ==
    Tokenized(Definition("f", << Number("1") >>) \o Definition("F", << Number("2") >>)
              \o << Word("f") >>)
TwiceInModule ==
    Tokenized(<< Word("MODULE"), Word("m") >> \o Definition("f", << Number("1") >>)
              \o Definition("m::f", << Number("2") >>) \o << Word("f") >>)

RedefinitionSources ==
    {TwiceThenUse, UseThenTwice, TwiceAroundUse, TwiceOtherCase, TwiceInModule}

\* References, in the body of a definition, to the name being defined and to
\* names defined later.
\*   @f f ; f                 @g f ; @f 1 ; g          @f [ f ] call ; f
\*   @f 1 ; @f f 1 + ; f      @dup dup ; 1 dup         @call call ; [ 7 ] call
\*   @g dup ; @dup 7 ; 1 g
SelfReference == Tokenized(Definition("f", << Word("f") >>) \o << Word("f") >>)
ForwardReference ==
    Tokenized(Definition("g", << Word("f") >>) \o Definition("f", << Number("1") >>)
              \o << Word("g") >>)
SelfReferenceInQuotation ==
    Tokenized(Definition("f", Quoted(<< Word("f") >>) \o << Word("call") >>)
              \o << Word("f") >>)
EarlierOfSameName ==
    Tokenized(Definition("f", << Number("1") >>)
              \o Definition("f", << Word("f"), Number("1"), Word("+") >>)
              \o << Word("f") >>)
BuiltinOfSameName ==
    Tokenized(Definition("dup", << Word("dup") >>) \o << Number("1"), Word("dup") >>)
CombinatorOfSameName ==
    Tokenized(Definition("call", << Word("call") >>) \o Quoted(PushSeven)
              \o << Word("call") >>)
BuiltinBeforeLaterWord ==
    Tokenized(Definition("g", << Word("dup") >>) \o Definition("dup", << Number("7") >>)
              \o << Number("1"), Word("g") >>)

ReferenceSources ==
    {SelfReference, ForwardReference, SelfReferenceInQuotation, EarlierOfSameName,
     BuiltinOfSameName, CombinatorOfSameName, BuiltinBeforeLaterWord}

\* Quotations whose bodies leave different numbers, each called:
\*   [ 1 ] call [ 2 ] call          [ [ 1 ] ] call call [ 2 ] call
\*   @w [ 1 ] call ; w [ 2 ] call
OneTwo == Tokenized(Quoted(<< Number("1") >>) \o << Word("call") >>
                    \o Quoted(<< Number("2") >>) \o << Word("call") >>)
NestedOneTwo ==
    Tokenized(Quoted(Quoted(<< Number("1") >>)) \o << Word("call"), Word("call") >>
              \o Quoted(<< Number("2") >>) \o << Word("call") >>)
WordOneTwo ==
    Tokenized(Definition("w", Quoted(<< Number("1") >>) \o << Word("call") >>)
              \o << Word("w") >> \o Quoted(<< Number("2") >>) \o << Word("call") >>)

\* A string literal of 21 characters and eight more bytes put the PUSH of the
\* last quotation at byte 251 of the bytecode, so its placeholder is
\* 4096 + 251 + 5 = 4352 = 0x1100:
\*   [ [ 1 ] ] call call "...21..." 0 dup drop drop [ 2 ] drop
NestedOneFarTwo ==
    Tokenized(Quoted(Quoted(<< Number("1") >>)) \o << Word("call"), Word("call") >>
              \o << String(Filler(21)), Number("0"), Word("dup"), Word("drop"),
                    Word("drop") >>
              \o Quoted(<< Number("2") >>) \o << Word("drop") >>)

PlaceholderSources == {OneTwo, NestedOneTwo, WordOneTwo, NestedOneFarTwo}

\* A number literal behind a quotation whose placeholder is 4096 + 5 + 5 = 4106
\* = 0x100A, and the literal 16 followed by MOD, the bytes 00 00 00 00 10 0A:
\*   [ 7 ] drop n          [ 7 ] drop 20 16 mod
Literals == {0, 7, 4105, 4106, 4107, 1051146}

LiteralBehindQuotation(n) ==
    Tokenized(Quoted(PushSeven) \o << Word("drop"), Numeral(n) >>)

ModBehindQuotation ==
    Tokenized(Quoted(PushSeven) \o << Word("drop"), Number("20"), Number("16"), Word("mod") >>)

LiteralSources == {LiteralBehindQuotation(n) : n \in Literals} \cup {ModBehindQuotation}

\* One loop site run from inside its own body, through the word that holds it,
\* and two loop sites run one inside the other:
\*   @rep 3 #: ; 0 [ [ 1 + ] rep ] rep
\*   @rep 3 #: ; @bump [ 1 + ] rep ; 0 [ bump ] rep
\*   @rep 3 #: ; @rep2 3 #: ; @bump [ 1 + ] rep2 ; 0 [ bump ] rep
RepDefinition(name) == Definition(name, << Number("3"), Word("#:") >>)

BumpDefinition(rep) ==
    Definition("bump", Quoted(<< Number("1"), Word("+") >>) \o << Word(rep) >>)

RepInRep ==
    Tokenized(RepDefinition("rep") \o << Number("0") >>
              \o Quoted(Quoted(<< Number("1"), Word("+") >>) \o << Word("rep") >>)
              \o << Word("rep") >>)

RepInRepByWord ==
    Tokenized(RepDefinition("rep") \o BumpDefinition("rep") \o << Number("0") >>
              \o Quoted(<< Word("bump") >>) \o << Word("rep") >>)

Rep2InRep ==
    Tokenized(RepDefinition("rep") \o RepDefinition("rep2") \o BumpDefinition("rep2")
              \o << Number("0") >> \o Quoted(<< Word("bump") >>) \o << Word("rep") >>)

ReentrantSources == {RepInRep, RepInRepByWord, Rep2InRep}

\* A loop with a negative count, whose body runs out of values to drop:
\*   0 [ drop ] n #:
NegativeCounts == {-1, -2, MinInt32}

NegativeTimesSource(n) ==
    Tokenized(<< Number("0") >> \o Quoted(<< Word("drop") >>)
              \o << Numeral(n), Word("#:") >>)

NegativeTimesSources == {NegativeTimesSource(n) : n \in NegativeCounts}

\* A combinator alone in a quotation nested d deep, in the main body and in
\* the body of a word:
\*   [ ? ]     [ [ keep ] ]     @w [ dip ] ;     @w [ [ call ] ] ;
QuotedDepths == 1..MaxNesting

QuotedCombinators == {"?", "?:", "!:", "|:", "#:", "call", "dip", "keep"}

RECURSIVE NestAround(_, _)
NestAround(d, body) ==
    IF d = 1 THEN Quoted(body) ELSE Quoted(NestAround(d - 1, body))

CombinatorInMain(name, d) == Tokenized(NestAround(d, << Word(name) >>))

CombinatorInDefinition(name, d) ==
    Tokenized(Definition("w", NestAround(d, << Word(name) >>)))

QuotedCombinatorSources ==
    {CombinatorInMain(name, d) : name \in QuotedCombinators, d \in QuotedDepths}
    \cup {CombinatorInDefinition(name, d) : name \in QuotedCombinators, d \in QuotedDepths}

LuxSources ==
    IfElseSources \cup IfSources \cup WhileSources \cup TimesSources \cup KeepSources
    \cup WordSources \cup OtherSources \cup ModuleSources \cup NestedSources
    \cup RedefinitionSources \cup ReferenceSources \cup PlaceholderSources
    \cup LiteralSources \cup ReentrantSources \cup NegativeTimesSources
    \cup QuotedCombinatorSources

\* ------------------------------------------------------------ calls
\* Compilers for resolveWord: a dictionary over four names, with an address
\* apiece, a current module or none, and import aliases.
DictionaryNames == {"F", "M::F", "N::F", "A::F"}

Dictionary(names) ==
    [k \in names |-> [Name |-> k, Address |-> ReservedMemorySize + 6 * Len(k), Module |-> ""]]

ImportMaps == {EmptyMap, MapPut(EmptyMap, "A", "N"), MapPut(MapPut(EmptyMap, "A", "N"), "M", "N")}

WordNames == {"f", "F", "m::f", "a::f", "A::F", "g", "x::f", "a::g"}

ResolveCalls ==
    {[fn |-> "resolveWord",
      c |-> [NewCompiler(<< >>) EXCEPT !.dictionary = Dictionary(names),
                                       !.currentModule = module,
                                       !.imports = imports],
      wordName |-> name] :
        names \in SUBSET DictionaryNames, module \in {"", "M", "N"},
        imports \in ImportMaps, name \in WordNames}

\* Source texts that are malformed in one place: an unclosed string, an
\* unclosed block comment, an unclosed quotation, a ] with no open [, an @
\* inside a word definition, a MODULE, IMPORT or AS with no name behind it, a
\* word that resolves to nothing.  Each stands behind and before well-formed
\* text.
Malformed ==
    { "\"abc", "\"ab\\\"", "\"a\\",
      "( x", "( a ( b )",
      "[ 1", "[ [ 1 ]", "[",
      "]", "[ 1 ] ]",
      "@f 1 @g 2 ; ;", "@f [ @g ] ;", "@f @",
      "MODULE", "module", "IMPORT", "IMPORT m AS",
      "nosuch", "[ nosuch ]", "@f nosuch ;", "@f [ nosuch ] ;", "m::f" }

TextBefore == {"", "1 ", "@sq dup * ; ", "MODULE m ", "[ 2 ] call ", "( c ) "}

TextBehind == {"", " 2", " @g 2 ;", " [ 3 ] drop"}

MalformedSources ==
    {before \o text \o behind : before \in TextBefore, text \in Malformed,
                                behind \in TextBehind}

WellFormedSources == {before \o "7" \o behind : before \in TextBefore, behind \in TextBehind}

CompileCalls ==
    {[fn |-> "Compile", input |-> text] : text \in MalformedSources \cup WellFormedSources}

\* Source texts for Tokenize: every text of up to MaxText characters over a
\* letter, a digit, the colon, a character that the list in
\* readWord does not name, the space, the newline and the opening bracket.
MaxText == 4

TextChars == {"a", "1", ":", "$", " ", "\n", "["}

RECURSIVE Texts(_)
Texts(n) ==
    IF n = 0 THEN {""}
    ELSE Texts(n - 1) \cup {text \o ch : text \in Texts(n - 1), ch \in TextChars}

TokenizeCalls == {[fn |-> "Tokenize", input |-> text] : text \in Texts(MaxText)}

\* ------------------------------------------------------------ REPL
\* strings.TrimSpace, strings.HasPrefix, strings.Contains of one character,
\* and the first element of strings.Fields ("" when there is none).
RECURSIVE TrimSpace(_)
TrimSpace(s) ==
    IF s = "" THEN s
    ELSE IF IsSpace(SubSeq(s, 1, 1)) THEN TrimSpace(SubSeq(s, 2, Len(s)))
    ELSE IF IsSpace(SubSeq(s, Len(s), Len(s))) THEN TrimSpace(SubSeq(s, 1, Len(s) - 1))
    ELSE s

HasPrefix(s, prefix) == Len(s) >= Len(prefix) /\ SubSeq(s, 1, Len(prefix)) = prefix

Contains(s, ch) == \E i \in 1..Len(s) : SubSeq(s, i, i) = ch

RECURSIVE FirstField(_)
FirstField(s) ==
    IF s = "" THEN ""
    ELSE IF IsSpace(SubSeq(s, 1, 1)) THEN FirstField(SubSeq(s, 2, Len(s)))
    ELSE LET ends == {i \in 1..Len(s) : IsSpace(SubSeq(s, i, i))}
         IN  IF ends = {} THEN s
             ELSE SubSeq(s, 1, (CHOOSE i \in ends : \A e \in ends : i <= e) - 1)

\* The REPL's fields; the scanner is the lines of standard input.
NewREPL == [history |-> "", stack |-> << >>, definitions |-> << >>]

\* The lines typed at the prompt: Lux text that runs, text that fails in the
\* compiler or in the VM, word definitions, REPL commands, blank lines.
MaxLines == 3

Lines ==
    {" -5 3 ", "+", "1 0 /", "1 // c", "@sq dup * ;", "sq", "4 @sq 7 ;", "@bad 1",
     "", "clear", "clearstack", "drop", "exit"}

\* Lines that begin with @ and contain a semicolon: a definition, a definition
\* followed by a number, a definition with a stray bracket; and lines that
\* hold only a comment.
DefinitionLines == {"@sq dup * ;", "@f 1 ; 2", "@g ] ;"}

CommentLines == {"// c", "( c )"}

\* ------------------------------------------------------------ state
VARIABLES
    stack,            \* vm.stack
    returnStack,      \* vm.returnStack
    memory,           \* vm.memory
    pc,               \* vm.pc
    running,          \* vm.running
    userMemoryStart,  \* vm.userMemoryStart (= vm.reservedMemorySize)
    out,              \* standard output
    inRun,            \* control is inside Run's loop
    returned,         \* what the last call of Compile, Run, Step or ExecuteInstruction returned
    source,           \* the Lux tokens the image was compiled from; << >> for a bytecode file
    repl,             \* the REPL's fields: history, stack, definitions
    args              \* the arguments of a call of Tokenize, Compile or resolveWord; the lines the REPL has read

vmvars == << stack, returnStack, memory, pc, running, userMemoryStart, out >>
hostvars == << source, repl, args >>
vars == << stack, returnStack, memory, pc, running, userMemoryStart, out, inRun,
           returned, source, repl, args >>

\* The VM as a value, and the assignment of a VM value to the state.
VM ==
    [stack |-> stack, returnStack |-> returnStack, memory |-> memory, pc |-> pc,
     running |-> running, userMemoryStart |-> userMemoryStart, out |-> out]

Becomes(m) ==
    /\ stack' = m.stack
    /\ returnStack' = m.returnStack
    /\ memory' = m.memory
    /\ pc' = m.pc
    /\ running' = m.running
    /\ userMemoryStart' = m.userMemoryStart
    /\ out' = m.out

\* Both stacks are within the depth the model follows.
Followed == Len(stack) <= DepthCap /\ Len(returnStack) <= DepthCap

\* The loop condition of Run, and the guard of Step.
Live(m) == m.running /\ ~UintGE(m.pc, Len(m.memory))

\* The host holds a VM built by NewVMWithReservedMemory(program, ReservedSize).
Loaded(program) ==
    LET m == NewVMWithReservedMemory(program, ReservedSize)
    IN  /\ stack = m.stack
        /\ returnStack = m.returnStack
        /\ memory = m.memory
        /\ pc = m.pc
        /\ running = m.running
        /\ userMemoryStart = m.userMemoryStart
        /\ out = m.out
        /\ inRun = FALSE
        /\ returned = [call |-> "NewVM", cont |-> FALSE, err |-> Nil]
        /\ source = << >>
        /\ repl = NewREPL
        /\ args = << >>

Init == \E program \in Programs : Loaded(program)

InitGrowing == \E program \in GrowingPrograms : Loaded(program)

\* The data stack after n instructions that each pushed value onto it.
Filled(n, value) == [i \in 1..n |-> value]

\* A state of SpecGrowing far along one of its two data-stack loops: the host has
\* called ExecuteInstruction until the data stack holds
\* MaxStackSize - FillSlack values and control is back at the loop head L.
\*   L: PUSH 1; JMP L           (L = U)
\*   PUSH 1; L: DUP; JMP L      (L = U + 5)
InitFilled ==
    \E loop \in { [program |-> PushInstruction(1) \o JmpInstruction(U), head |-> U],
                  [program |-> PushInstruction(1) \o << OpDup >> \o JmpInstruction(U + 5),
                   head |-> U + 5] } :
        LET m == NewVMWithReservedMemory(loop.program, ReservedSize)
        IN  /\ stack = Filled(MaxStackSize - FillSlack, 1)
            /\ returnStack = m.returnStack
            /\ memory = m.memory
            /\ pc = loop.head
            /\ running = m.running
            /\ userMemoryStart = m.userMemoryStart
            /\ out = m.out
            /\ inRun = FALSE
            /\ returned = [call |-> "ExecuteInstruction", cont |-> FALSE, err |-> Nil]
            /\ source = << >>
            /\ repl = NewREPL
            /\ args = << >>

\* ------------------------------------------------------------ entry points

\* Step without the test of vm.running.
Step_IgnoresRunning ==
    /\ ~inRun
    /\ Followed
    /\ IF UintGE(pc, Len(memory))
       THEN /\ returned' = [call |-> "Step", cont |-> FALSE, err |-> Nil]
            /\ UNCHANGED vmvars
       ELSE LET r == ExecuteInstruction(VM)
            IN  /\ Becomes(r.vm)
                /\ returned' = [call |-> "Step",
                                cont |-> (r.err = Nil /\ Live(r.vm)),
                                err |-> r.err]
    /\ UNCHANGED << inRun, hostvars >>

\* vm.Step(): (false, nil) without touching the VM when it is not live; else one
\* instruction, returning (false, err) or (still live, nil).
Step ==
    /\ ~inRun
    /\ Followed
    /\ IF ~Live(VM)
       THEN /\ returned' = [call |-> "Step", cont |-> FALSE, err |-> Nil]
            /\ UNCHANGED vmvars
       ELSE LET r == ExecuteInstruction(VM)
            IN  /\ Becomes(r.vm)
                /\ returned' = [call |-> "Step",
                                cont |-> (r.err = Nil /\ Live(r.vm)),
                                err |-> r.err]
    /\ UNCHANGED << inRun, hostvars >>

\* vm.ExecuteInstruction() called by the host directly.
Execute ==
    /\ ~inRun
    /\ Followed
    /\ LET r == ExecuteInstruction(VM)
       IN  /\ Becomes(r.vm)
           /\ returned' = [call |-> "ExecuteInstruction", cont |-> FALSE, err |-> r.err]
    /\ UNCHANGED << inRun, hostvars >>

\* vm.Run() is entered.
RunCall ==
    /\ ~inRun
    /\ inRun' = TRUE
    /\ returned' = [call |-> "Run", cont |-> FALSE, err |-> Nil]
    /\ UNCHANGED << vmvars, hostvars >>

\* One iteration of Run's loop: an instruction; an error ends Run.
RunLoop ==
    /\ inRun
    /\ Followed
    /\ Live(VM)
    /\ LET r == ExecuteInstruction(VM)
       IN  /\ Becomes(r.vm)
           /\ IF r.err # Nil
              THEN /\ inRun' = FALSE
                   /\ returned' = [call |-> "Run", cont |-> FALSE,
                                   err |-> Wrap("error at PC", r.err)]
              ELSE UNCHANGED << inRun, returned >>
    /\ UNCHANGED hostvars

\* Run's loop condition is false: Run returns nil.
RunReturn ==
    /\ inRun
    /\ ~Live(VM)
    /\ inRun' = FALSE
    /\ returned' = [call |-> "Run", cont |-> FALSE, err |-> Nil]
    /\ UNCHANGED << vmvars, hostvars >>

Next == Step \/ Execute \/ RunCall \/ RunLoop \/ RunReturn

Spec == Init /\ [][Next]_vars

SpecGrowing == InitGrowing /\ [][Next]_vars

\* Every program of Spec, and the two data-stack loops of SpecGrowing taken up
\* shortly before the data stack is full.
SpecFilled == (Init \/ InitFilled) /\ [][Next]_vars

\* What the host holds in place of a VM after a compile error: no memory,
\* nothing to run.
NoVM ==
    [stack |-> << >>, returnStack |-> << >>, memory |-> << >>, pc |-> 0,
     running |-> FALSE, userMemoryStart |-> 0, out |-> << >>]

\* The host has compiled a source: with no error it holds a VM built by NewVM
\* from the image, and with an error it holds no VM at all.
Compiled(tokens) ==
    \E r \in {CompileTokens(tokens)} :
        \E m \in {IF r.err = Nil THEN NewVM(r.bytecode) ELSE NoVM} :
            /\ source = tokens
            /\ repl = NewREPL
            /\ args = << >>
            /\ returned = [call |-> "Compile", cont |-> FALSE, err |-> r.err]
            /\ inRun = FALSE
            /\ stack = m.stack
            /\ returnStack = m.returnStack
            /\ memory = m.memory
            /\ pc = m.pc
            /\ running = m.running
            /\ userMemoryStart = m.userMemoryStart
            /\ out = m.out

InitLux == \E tokens \in LuxSources : Compiled(tokens)

\* After a compile error the host returns without a VM; otherwise it runs
\* the VM, once.
RunCompiled == returned = [call |-> "Compile", cont |-> FALSE, err |-> Nil] /\ RunCall

NextLux == RunCompiled \/ RunLoop \/ RunReturn

\* The compile-and-run path of the hosts over the Lux sources.
SpecLux == InitLux /\ [][NextLux]_vars

\* Run of n [ 0 > ] [ DUP 1 - ] |: at the head of its loop, with n, n-1, ...,
\* low on the stack: both quotation addresses are in their reserved-memory
\* slots, the loop has run n - low times, and pc is at the DUP.
CountingDown(n, low) ==
    \E r \in {CompileTokens(CountDownSource(n))} :
        \E m \in {NewVM(r.bytecode)} :
            /\ source = CountDownSource(n)
            /\ repl = NewREPL
            /\ args = << >>
            /\ returned = [call |-> "Run", cont |-> FALSE, err |-> Nil]
            /\ inRun = TRUE
            /\ stack = [i \in 1..(n - low + 1) |-> n + 1 - i]
            /\ returnStack = << >>
            /\ memory = WriteInt32(WriteInt32(m.memory, 4, r.c.quotations[2].Address),
                                   0, r.c.quotations[1].Address)
            /\ pc = ReservedMemorySize + 30
            /\ running = TRUE
            /\ userMemoryStart = m.userMemoryStart
            /\ out = << >>

\* The two longest countdowns, taken up when they have counted down to 2.
InitLuxFilled ==
    \E n \in {MaxStackSize - 3, MaxStackSize - 2} : CountingDown(n, 2)

\* Every source of SpecLux, and the two longest countdowns near their end.
SpecLuxFilled == (InitLux \/ InitLuxFilled) /\ [][NextLux]_vars

\* ------------------------------------------------------------ calls of the lexer and the compiler
\* A caller runs one function of the lexer or the compiler on arguments of its
\* own, with no VM.
Calling(call) ==
    /\ args = call
    /\ returned = [call |-> "none", cont |-> FALSE, err |-> Nil]
    /\ inRun = FALSE
    /\ stack = NoVM.stack
    /\ returnStack = NoVM.returnStack
    /\ memory = NoVM.memory
    /\ pc = NoVM.pc
    /\ running = NoVM.running
    /\ userMemoryStart = NoVM.userMemoryStart
    /\ out = NoVM.out
    /\ source = << >>
    /\ repl = NewREPL

InitCalls == \E call \in ResolveCalls \cup CompileCalls \cup TokenizeCalls : Calling(call)

\* compiler.resolveWord(wordName)
ResolveCall ==
    /\ returned.call = "none"
    /\ args.fn = "resolveWord"
    /\ \E r \in {resolveWord(args.c, args.wordName)} :
          returned' = [call |-> "resolveWord", cont |-> FALSE, err |-> Nil,
                       word |-> r.word, ok |-> r.ok]
    /\ UNCHANGED << vmvars, inRun, hostvars >>

\* lux.Compile(source)
CompileCall ==
    /\ returned.call = "none"
    /\ args.fn = "Compile"
    /\ \E r \in {Compile(args.input)} :
          returned' = [call |-> "Compile", cont |-> FALSE, err |-> r.err,
                       bytecode |-> r.bytecode]
    /\ UNCHANGED << vmvars, inRun, hostvars >>

\* lexer.Tokenize() on NewLexer(input)
TokenizeCall ==
    /\ returned.call = "none"
    /\ args.fn = "Tokenize"
    /\ \E r \in {Tokenize(args.input)} :
          returned' = [call |-> "Tokenize", cont |-> FALSE, err |-> r.err,
                       tokens |-> r.tokens]
    /\ UNCHANGED << vmvars, inRun, hostvars >>

\* The texts of the tokens before the TokenEOF, joined with single spaces.
RECURSIVE Canonical(_)
Canonical(tokens) ==
    IF Len(tokens) <= 1 THEN ""
    ELSE IF Len(tokens) = 2 THEN tokens[1].Value
    ELSE tokens[1].Value \o " " \o Canonical(Tail(tokens))

\* The tokens that Tokenize returned are written out, joined with single
\* spaces, and that text is tokenized; args.first keeps the tokens.
Retokenize ==
    /\ returned.call = "Tokenize"
    /\ returned.err = Nil
    /\ "first" \notin DOMAIN args
    /\ args' = [fn |-> "Tokenize", input |-> Canonical(returned.tokens),
                first |-> returned.tokens]
    /\ \E r \in {Tokenize(Canonical(returned.tokens))} :
          returned' = [call |-> "Tokenize", cont |-> FALSE, err |-> r.err,
                       tokens |-> r.tokens]
    /\ UNCHANGED << vmvars, inRun, source, repl >>

NextCalls == ResolveCall \/ CompileCall \/ TokenizeCall \/ Retokenize

SpecCalls == InitCalls /\ [][NextCalls]_vars

\* ------------------------------------------------------------ the REPL
\* vm.Run() as one call: the VM afterwards and the error returned.
RECURSIVE Run(_)
Run(m) ==
    LET executed(r) ==
            IF r.err # Nil THEN Return(r.vm, Wrap("error at PC", r.err)) ELSE Run(r.vm)
    IN  IF ~Live(m) THEN Return(m, Nil) ELSE executed(ExecuteInstruction(m))

RECURSIVE Pushes_TopFirst(_)
Pushes_TopFirst(values) ==
    IF values = << >> THEN ""
    ELSE Pushes_TopFirst(Tail(values)) \o ToString(Head(values)) \o " "

\* The stack-restoring literals: "%d " for every saved value.
RECURSIVE Pushes(_)
Pushes(values) ==
    IF values = << >> THEN ""
    ELSE ToString(Head(values)) \o " " \o Pushes(Tail(values))

\* What a line did: the REPL afterwards, the handler that took the line and
\* the error it printed.
Handled(r, handler, e) == [repl |-> r, call |-> handler, err |-> e]

evaluate_SavesOnError(r, line) ==
    LET ran(x) ==
            IF x.err # Nil
            THEN Handled([r EXCEPT !.stack = x.vm.stack], "evaluate",
                         Wrap("Runtime error", x.err))
            ELSE Handled([r EXCEPT !.stack = x.vm.stack], "evaluate", Nil)
        compiled(c) ==
            IF c.err # Nil THEN Handled(r, "evaluate", Wrap("Compile error", c.err))
            ELSE ran(Run(NewVM(c.bytecode)))
        wordName == FirstField(SubSeq(line, 2, Len(line)))
    IN  IF HasPrefix(line, "@")
        THEN IF ~Contains(line, ";")
             THEN Handled(r, "evaluate", Errorf("Word definition must end with ';'"))
             ELSE Handled([r EXCEPT !.history = @ \o line \o "\n",
                                    !.definitions = IF wordName = "" THEN @
                                                    ELSE Append(@, wordName)],
                          "evaluate", Nil)
        ELSE compiled(Compile(r.history \o Pushes(r.stack) \o line))

\* REPL.evaluate(line)
evaluate(r, line) ==
    LET ran(x) ==
            IF x.err # Nil THEN Handled(r, "evaluate", Wrap("Runtime error", x.err))
            ELSE Handled([r EXCEPT !.stack = x.vm.stack], "evaluate", Nil)
        compiled(c) ==
            IF c.err # Nil THEN Handled(r, "evaluate", Wrap("Compile error", c.err))
            ELSE ran(Run(NewVM(c.bytecode)))
        wordName == FirstField(SubSeq(line, 2, Len(line)))
    IN  IF HasPrefix(line, "@")
        THEN IF ~Contains(line, ";")
             THEN Handled(r, "evaluate", Errorf("Word definition must end with ';'"))
             ELSE Handled([r EXCEPT !.history = @ \o line \o "\n",
                                    !.definitions = IF wordName = "" THEN @
                                                    ELSE Append(@, wordName)],
                          "evaluate", Nil)
        ELSE compiled(Compile(r.history \o Pushes(r.stack) \o line))

\* The lines that handleCommand takes.
Commands ==
    {"exit", "quit", "q", "help", "?", "clear", "reset", "clearstack", "cs",
     "stack", ".s", "drop", "words", "history"}

\* REPL.handleCommand(line) for a line of Commands.
handleCommand(r, line) ==
    CASE line \in {"exit", "quit", "q"} -> Handled(r, "exit", Nil)
      [] line \in {"clear", "reset"} ->
            Handled([r EXCEPT !.history = "", !.definitions = << >>], "handleCommand", Nil)
      [] line \in {"clearstack", "cs"} ->
            Handled([r EXCEPT !.stack = << >>], "handleCommand", Nil)
      [] line = "drop" ->
            Handled([r EXCEPT !.stack = IF Len(@) > 0 THEN SubSeq(@, 1, Len(@) - 1)
                                        ELSE @],
                    "handleCommand", Nil)
      [] OTHER -> Handled(r, "handleCommand", Nil)

\* One iteration of the loop of REPL.Run on the scanned text.
ReadLine(r, text) ==
    LET line == TrimSpace(text)
    IN  IF line = "" THEN Handled(r, "Run", Nil)
        ELSE IF line \in Commands THEN handleCommand(r, line)
        ELSE evaluate(r, line)

\* The REPL starts; args is the lines scanned so far.
InitREPL ==
    /\ repl = NewREPL
    /\ args = << >>
    /\ returned = [call |-> "NewREPL", cont |-> FALSE, err |-> Nil]
    /\ inRun = FALSE
    /\ stack = NoVM.stack
    /\ returnStack = NoVM.returnStack
    /\ memory = NoVM.memory
    /\ pc = NoVM.pc
    /\ running = NoVM.running
    /\ userMemoryStart = NoVM.userMemoryStart
    /\ out = NoVM.out
    /\ source = << >>

\* The scanner has a line, one of `lines`, and the handler `handler` takes it.
ScanOf(lines, handler) ==
    /\ Len(args) < MaxLines
    /\ returned.call # "exit"
    /\ \E text \in lines :
          \E r \in {ReadLine(repl, text)} :
              /\ r.call = handler
              /\ args' = Append(args, text)
              /\ repl' = r.repl
              /\ returned' = [call |-> r.call, cont |-> FALSE, err |-> r.err]
    /\ UNCHANGED << vmvars, inRun, source >>

Scan(handler) == ScanOf(Lines, handler)

\* A blank line: the loop continues.
ScanBlank == Scan("Run")

\* A REPL command.
ScanCommand == Scan("handleCommand")

\* exit, quit or q: os.Exit(0).
ScanExit == Scan("exit")

\* Any other line goes to evaluate.
ScanEvaluate == Scan("evaluate")

NextREPL == ScanBlank \/ ScanCommand \/ ScanExit \/ ScanEvaluate

SpecREPL == InitREPL /\ [][NextREPL]_vars

\* Sessions of lines that evaluate takes as word definitions, of comments and
\* of a number.
ScanDefinition == ScanOf(DefinitionLines, "evaluate")

ScanComment == ScanOf(CommentLines \cup {"5"}, "evaluate")

NextHistory == ScanDefinition \/ ScanComment

SpecHistory == InitREPL /\ [][NextHistory]_vars

\* ------------------------------------------------------------ reserved memory
\* a < b for two uint32 values, each held as the int32 of the same bit pattern.
UintLess(a, b) == IF (a < 0) = (b < 0) THEN a < b ELSE b < 0

\* vm.reservedMemorySize: the constructors set it to the value they give
\* userMemoryStart, and nothing assigns either afterwards.
reservedMemorySize(m) == m.userMemoryStart

\* A []byte argument, by its length (below 2^32, held like a uint32) and the
\* byte it is filled with.
Filled_Bytes(length, byte) == [length |-> length, byte |-> byte]

\* The result of a reserved-memory method: the VM afterwards, the bytes and
\* the error returned, and whether the call ended in a run-time panic.
Reserved(m, result, e, panic) == [vm |-> m, result |-> result, err |-> e, panic |-> panic]

\* vm.WriteReservedMemory(offset, data): copy writes as many bytes as
\* vm.memory[offset:] holds, at most len(data).
WriteReservedMemory(m, offset, data) ==
    IF UintGE(offset, reservedMemorySize(m))
    THEN Reserved(m, << >>, Errorf("reserved memory offset out of bounds"), FALSE)
    ELSE IF UintGE(Add32(offset, data.length), reservedMemorySize(m) + 1)
    THEN Reserved(m, << >>, Errorf("reserved memory write would overflow"), FALSE)
    ELSE LET n == IF UintGE(data.length, Len(m.memory) - offset)
                  THEN Len(m.memory) - offset
                  ELSE data.length
         IN  Reserved([m EXCEPT !.memory =
                          [i \in 1..Len(@) |->
                              IF i > offset /\ i <= offset + n THEN data.byte ELSE @[i]]],
                      << >>, Nil, FALSE)

\* vm.ReadReservedMemory(offset, size): the slice expression
\* vm.memory[offset:offset+size] panics when its wrapped upper index is below
\* offset.
ReadReservedMemory(m, offset, size) ==
    IF UintGE(offset, reservedMemorySize(m))
    THEN Reserved(m, << >>, Errorf("reserved memory offset out of bounds"), FALSE)
    ELSE IF UintGE(Add32(offset, size), reservedMemorySize(m) + 1)
    THEN Reserved(m, << >>, Errorf("reserved memory read would overflow"), FALSE)
    ELSE IF UintLess(Add32(offset, size), offset)
    THEN Reserved(m, << >>, Nil, TRUE)
    ELSE Reserved(m, SubSeq(m.memory, offset + 1, offset + size), Nil, FALSE)

\* Offsets and sizes around the reserved size and around 2^32: -n is the
\* uint32 2^32 - n.
ReservedOffsets ==
    {0, ReservedSize - 3, ReservedSize, -1}

ReservedSizes ==
    {0, 3, 4, ReservedSize + 1, -(ReservedSize - 3), -1}

ReservedFill == {7}

\* The host holds a VM with a short program behind the reserved region.
InitReserved == Loaded(<< OpPush, 0, 0, 0, 7, OpHalt >>)

\* The host calls vm.WriteReservedMemory; args keeps the arguments.
WriteReserved ==
    /\ ~("panic" \in DOMAIN returned /\ returned.panic)
    /\ \E offset \in ReservedOffsets, length \in ReservedSizes, byte \in ReservedFill :
          \E r \in {WriteReservedMemory(VM, offset, Filled_Bytes(length, byte))} :
              /\ Becomes(r.vm)
              /\ args' = [fn |-> "WriteReservedMemory", offset |-> offset, size |-> length,
                          byte |-> byte]
              /\ returned' = [call |-> "WriteReservedMemory", cont |-> FALSE,
                              err |-> r.err, panic |-> r.panic, result |-> r.result]
    /\ UNCHANGED << inRun, source, repl >>

\* The host calls vm.ReadReservedMemory; a panic ends the program.
ReadReserved ==
    /\ ~("panic" \in DOMAIN returned /\ returned.panic)
    /\ \E offset \in ReservedOffsets, size \in ReservedSizes :
          \E r \in {ReadReservedMemory(VM, offset, size)} :
              /\ Becomes(r.vm)
              /\ args' = [fn |-> "ReadReservedMemory", offset |-> offset, size |-> size]
              /\ returned' = [call |-> "ReadReservedMemory", cont |-> FALSE,
                              err |-> r.err, panic |-> r.panic, result |-> r.result]
    /\ UNCHANGED << inRun, source, repl >>

NextReserved == WriteReserved \/ ReadReserved

SpecReserved == InitReserved /\ [][NextReserved]_vars

\* ------------------------------------------------------------ loop sites
\* The most loop sites the model compiles one after the other.
MaxSites == 4

\* The allocation cursor when the first of these sites is compiled: low, or
\* up to MaxSites sites before the end of reserved memory.  Every site before
\* took two slots of four bytes.
CursorStarts == {0, 8, 16} \cup {ReservedMemorySize - 8 * k : k \in 0..MaxSites}

\* The loop combinators, which allocate.
LoopCombinators == {"|:", "#:"}

\* The compiler stands before a loop combinator; args holds the compiler and,
\* for every site compiled, the combinator and the offset of its code.
InitSites ==
    /\ \E start \in CursorStarts :
          args = [fn |-> "compileCombinator",
                  c |-> [NewCompiler(<< >>) EXCEPT !.tempAlloc = start],
                  sites |-> << >>]
    /\ returned = [call |-> "NewCompiler", cont |-> FALSE, err |-> Nil]
    /\ inRun = FALSE
    /\ stack = NoVM.stack
    /\ returnStack = NoVM.returnStack
    /\ memory = NoVM.memory
    /\ pc = NoVM.pc
    /\ running = NoVM.running
    /\ userMemoryStart = NoVM.userMemoryStart
    /\ out = NoVM.out
    /\ source = << >>
    /\ repl = NewREPL

\* compileCombinator on the next loop combinator; an error ends compile.
CompileSite(name) ==
    /\ returned.err = Nil
    /\ Len(args.sites) < MaxSites
    /\ \E r \in {compileCombinator(args.c, name)} :
          /\ args' = [args EXCEPT !.c = r.c,
                                  !.sites = Append(@, [name |-> name,
                                                       offset |-> currentOffset(args.c)])]
          /\ returned' = [call |-> "compileCombinator", cont |-> FALSE, err |-> r.err]
    /\ UNCHANGED << vmvars, inRun, source, repl >>

CompileWhileSite == CompileSite("|:")

CompileTimesSite == CompileSite("#:")

NextSites == CompileWhileSite \/ CompileTimesSite

SpecSites == InitSites /\ [][NextSites]_vars

\* ------------------------------------------------------------ properties

\* The step executes the instruction whose opcode byte is op: the byte at pc is
\* op and the VM changed (every fetch moves pc; a step that leaves the VM as it
\* was, such as a jump to itself, has nothing to check).
Executes(op) ==
    /\ ~UintGE(pc, Len(memory))
    /\ memory[pc + 1] = op
    /\ vmvars' # vmvars

\* The 4-byte operand of the instruction at pc is inside memory.
HasOperand == pc + 5 <= Len(memory)

\* The operand of the instruction at pc.
Operand == ReadInt32(VM, pc + 1)

Top(s) == s[Len(s)]
Front(s) == SubSeq(s, 1, Len(s) - 1)

\* The call that has just returned reported an error.
Trapped == returned.err # Nil
TrappedNext == returned'.err # Nil

\* C1: in every reachable state the data stack holds at most 8192 values (a
\* PUSH onto a full data stack traps and does not grow it).
C1_DataStackBounded == Len(stack) <= MaxStackSize

\* C2: in every reachable state the return stack holds at most 1024 return
\* addresses (CALL and CALLSTACK trap instead of pushing onto a full one).
C2_ReturnStackBounded == Len(returnStack) <= MaxReturnStackSize

\* C3: whenever Run, Step or ExecuteInstruction has returned an error, the
\* running flag is false.
C3_TrapClearsRunning == Trapped => ~running

\* C4: when Run has returned and the PC is outside memory without HALT having
\* been executed, Run returned an error.
C4_RunReportsPCOutOfBounds ==
    (returned.call = "Run" /\ ~inRun /\ running /\ UintGE(pc, Len(memory)))
        => Trapped

C6_CallsReturnLIFO ==
    [][ /\ (Executes(OpCall) /\ HasOperand)
            => (returnStack' = Append(returnStack, pc + 5) /\ pc' = Operand)
        /\ (Executes(OpCallStack) /\ ~TrappedNext)
            => (returnStack' = Append(returnStack, pc + 1) /\ pc' = Top(stack))
        /\ (Executes(OpRet) /\ returnStack # << >>)
            => (pc' = Top(returnStack) /\ returnStack' = Front(returnStack)
                /\ ~TrappedNext)
        /\ (Executes(OpRet) /\ returnStack = << >>)
            => (TrappedNext /\ returnStack' = << >>)
        /\ \/ returnStack' = returnStack
           \/ returnStack # << >> /\ returnStack' = Front(returnStack)
           \/ returnStack' # << >> /\ Front(returnStack') = returnStack ]_vars

\* CALL A; A: PUSH B; CALLSTACK; B: CALL C; C: PUSH 7; RET; RET -- the second
\* RET has returned from B to the byte after A's CALLSTACK, with the return
\* into the main body still pending.
C6_Witness ==
    /\ Len(memory) = U + 25
    /\ memory[U + 1] = OpCall
    /\ stack = << 7 >>
    /\ returnStack = << U + 5 >>
    /\ pc = U + 12

\* C7: the two stacks are disjoint.  CALL and RET leave the data stack alone,
\* CALLSTACK at most pops its target from it, and only CALL, CALLSTACK and RET
\* change the return stack.
C7_StacksDisjoint ==
    [][ /\ (Executes(OpCall) \/ Executes(OpRet)) => stack' = stack
        /\ Executes(OpCallStack)
            => \/ stack' = stack
               \/ stack # << >> /\ stack' = Front(stack)
        /\ returnStack' # returnStack
            => /\ ~UintGE(pc, Len(memory))
               /\ memory[pc + 1] \in {OpCall, OpCallStack, OpRet} ]_vars

\* PUSH t; CALLSTACK has entered the subroutine at t = U + 12: the target has
\* been popped, the return address is on the return stack only.
C7_Witness ==
    /\ Len(memory) = U + 18
    /\ memory[U + 6] = OpCallStack
    /\ ReadInt32(VM, U + 1) = U + 12
    /\ pc = U + 12
    /\ stack = << >>
    /\ returnStack = << U + 6 >>

\* The unsigned address x has its 4 bytes inside a memory of size bytes.
InsideMemory(x, size) == x >= 0 /\ x <= size - 4

\* C8: LOAD and STORE whose operand address does not have all 4 bytes inside
\* memory trap; the trapping STORE writes no byte and the trapping LOAD pushes
\* nothing.
C8_LoadStoreBounds ==
    [][ /\ (Executes(OpStore) /\ HasOperand /\ ~InsideMemory(Operand, Len(memory)))
            => (TrappedNext /\ memory' = memory)
        /\ (Executes(OpLoad) /\ HasOperand /\ ~InsideMemory(Operand, Len(memory)))
            => (TrappedNext /\ stack' = stack) ]_vars

\* PUSH v; STORE a has trapped for an address a with the high bit set.
C8_Witness ==
    /\ Len(memory) = U + 16
    /\ Trapped
    /\ Top(returned.err) = "store address out of bounds"
    /\ memory[U + 6] = OpStore
    /\ ReadInt32(VM, U + 6) < 0
    /\ pc = U + 6

\* -|x|: the magnitude kept negative, which exists for every int32.
NegAbs(x) == IF x > 0 THEN 0 - x ELSE x

\* The quotient of a by b (b # 0) truncated toward zero, reduced to 32 bits:
\* the quotient of the magnitudes, negative when the signs differ.  The one
\* magnitude that is no int32, 2^31 = |MinInt32| / |-1|, reduces to MinInt32.
TruncatedQuotient(a, b) ==
    LET negated == IF NegAbs(b) = -1 THEN NegAbs(a)
                   ELSE 0 - (NegAbs(a) \div NegAbs(b))
    IN  IF (a < 0) # (b < 0) \/ negated = MinInt32 THEN negated ELSE 0 - negated

\* C9: DIV and MOD trap on b = 0; otherwise DIV replaces a and b by the quotient
\* truncated toward zero and MOD by the remainder a - q * b, which is 0 or has
\* the sign of a and is smaller in magnitude than b.
C9_DivModTruncate ==
    [][ (/\ Executes(OpDiv) \/ Executes(OpMod)
         /\ Len(stack) >= 2)
        => LET n == Len(stack)
               a == stack[n - 1]
               b == stack[n]
               q == TruncatedQuotient(a, b)
               r == IF a = MinInt32 /\ b = -1 THEN 0 ELSE a - (q * b)
           IN  IF b = 0
               THEN TrappedNext
               ELSE /\ ~TrappedNext
                    /\ r = 0 \/ ((r < 0) = (a < 0))
                    /\ NegAbs(r) > NegAbs(b)
                    /\ stack' = Append(SubSeq(stack, 1, n - 2),
                                       IF memory[pc + 1] = OpDiv THEN q ELSE r) ]_vars

\* PUSH -7; PUSH 2; DIV has pushed -3 (the floor would be -4).
C9_Witness ==
    /\ Len(memory) = U + 12
    /\ memory[U + 11] = OpDiv
    /\ ReadInt32(VM, U + 1) = -7
    /\ ReadInt32(VM, U + 6) = 2
    /\ pc = U + 11
    /\ stack = << -3 >>
    /\ ~Trapped

\* C10: SHL replaces a and b by a shifted left by b mod 32 bits, a count in
\* 0 .. 31 for every b.
C10_ShlCountMod32 ==
    [][ (Executes(OpShl) /\ Len(stack) >= 2)
        => LET n == Len(stack)
               a == stack[n - 1]
               b == stack[n]
           IN  stack' = Append(SubSeq(stack, 1, n - 2), ShiftLeft32(a, b % 32)) ]_vars

\* The bytes the step appends to standard output.
Written == SubSeq(out', Len(out) + 1, Len(out'))

\* The number a canonical decimal text denotes, read digit by digit into a
\* non-positive accumulator; "none" when the bytes are not such a text (a
\* byte that is no digit, a leading zero, "-0", a bare sign, whitespace).
RECURSIVE ReadDigits(_, _)
ReadDigits(bytes, acc) ==
    IF bytes = << >> THEN acc
    ELSE ReadDigits(Tail(bytes), acc * 10 - (Head(bytes) - 48))

IsDecimalTextOf(bytes, value) ==
    LET digits == IF bytes # << >> /\ Head(bytes) = 45 THEN Tail(bytes) ELSE bytes
    IN  /\ digits # << >>
        /\ Len(digits) <= 10
        /\ \A i \in 1..Len(digits) : digits[i] >= 48 /\ digits[i] <= 57
        /\ (digits[1] = 48) => (bytes = << 48 >>)
        /\ Len(digits) = 10 =>
               (digits[1] <= 50 /\ ReadDigits(SubSeq(digits, 1, 9), 0) >= -214748364)
        /\ LET n == ReadDigits(digits, 0)
           IN  IF bytes[1] = 45 THEN value = n ELSE (n # MinInt32 /\ value = -n)

\* C11: OUT pops the format flag and then the value; format 0 writes the
\* decimal text of the value and nothing else, format 1 writes exactly one
\* byte, the low byte of the value (value mod 256).
C11_OutWritesLowByte ==
    [][ (Executes(OpOut) /\ Len(stack) >= 2)
        => LET n == Len(stack)
               format == stack[n]
               value == stack[n - 1]
           IN  /\ stack' = SubSeq(stack, 1, n - 2)
               /\ Len(out') >= Len(out)
               /\ SubSeq(out', 1, Len(out)) = out
               /\ (format = 0) => IsDecimalTextOf(Written, value)
               /\ (format = 1) => (Written = << value % 256 >>) ]_vars

\* The part of C11 about format 0 alone.
C11_DecimalPart ==
    [][ (Executes(OpOut) /\ Len(stack) >= 2 /\ stack[Len(stack)] = 0)
        => IsDecimalTextOf(Written, stack[Len(stack) - 1]) ]_vars

\* C12: Step on a VM that has executed HALT (running is false) returns
\* (false, nil) and leaves the data stack, return stack, memory, PC and
\* running flag as they were, each time it is called.
C12_StepOnHaltedIsNoOp ==
    [][ (~running /\ returned'.call = "Step")
        => /\ vmvars' = vmvars
           /\ returned' = [call |-> "Step", cont |-> FALSE, err |-> Nil] ]_vars

\* Step has returned on a VM that had halted: HALT at U + 15 was executed, the
\* host then ran PUSH 6 behind it with ExecuteInstruction (Step never runs an
\* instruction of a halted VM), and the last call was Step.
C12_Witness ==
    /\ Len(memory) = U + 22
    /\ memory[U + 16] = OpHalt
    /\ ~running
    /\ pc = U + 21
    /\ stack # << >>
    /\ Top(stack) = 6
    /\ returned = [call |-> "Step", cont |-> FALSE, err |-> Nil]

\* ------------------------------------------------------------ Lux properties

\* Compile has returned an image and the host has not run it yet.
JustCompiled == returned = [call |-> "Compile", cont |-> FALSE, err |-> Nil]

\* The image the VM was loaded with, as it stands in memory, and the byte of
\* it at an address.
Image == SubSeq(memory, ReservedMemorySize + 1, Len(memory))

ImageByte(addr) == memory[addr + 1]

\* The address of the last byte of the image.
LastAddress == Len(memory) - 1

\* The address behind the main body and its closing jump: the first
\* quotation body, or the final byte when there are no quotations.
PoolStart(c) ==
    IF c.quotations = << >> THEN LastAddress ELSE c.quotations[1].Address

\* C13: every image produced by Compile starts with a JMP to the first byte
\* of the main body, the address right behind the RET of the last word
\* definition; the main body is followed by a JMP to the address of the final
\* HALT byte; and the image ends with that HALT.
C13_ImageLayout ==
    JustCompiled =>
        LET c == CompileTokens(source).c
            mainStart == ReadInt32(VM, ReservedMemorySize + 1)
        IN  /\ ImageByte(ReservedMemorySize) = OpJmp
            /\ mainStart >= ReservedMemorySize + 5
            /\ mainStart <= PoolStart(c) - 5
            /\ \A w \in DOMAIN c.dictionary :
                   /\ c.dictionary[w].Address >= ReservedMemorySize + 5
                   /\ c.dictionary[w].Address < mainStart
            /\ IF DOMAIN c.dictionary = {}
               THEN mainStart = ReservedMemorySize + 5
               ELSE ImageByte(mainStart - 1) = OpRet
            /\ ImageByte(PoolStart(c) - 5) = OpJmp
            /\ ReadInt32(VM, PoolStart(c) - 4) = LastAddress
            /\ ImageByte(LastAddress) = OpHalt

\* The part of C13 that every image keeps: the initial JMP to the main body
\* behind the definitions, and the final HALT.
C13_EndsOfImage ==
    JustCompiled =>
        LET c == CompileTokens(source).c
            mainStart == ReadInt32(VM, ReservedMemorySize + 1)
        IN  /\ ImageByte(ReservedMemorySize) = OpJmp
            /\ mainStart >= ReservedMemorySize + 5
            /\ mainStart <= PoolStart(c) - 5
            /\ ImageByte(LastAddress) = OpHalt

\* The length of the instruction at an address: opcode and operand.
InstructionSize(addr) ==
    IF ImageByte(addr) \in {OpPush, OpJmp, OpJz, OpJnz, OpCall, OpLoad, OpStore}
    THEN 5 ELSE 1

\* The addresses of the first n instructions from addr on, and the address
\* behind them, the image read as the compiler emits it: one instruction
\* behind the other.
RECURSIVE InstructionsWithin(_, _)
InstructionsWithin(addr, n) ==
    IF n = 0 \/ addr > LastAddress THEN {}
    ELSE {addr} \cup InstructionsWithin(addr + InstructionSize(addr), n - 1)

RECURSIVE AddressBehind(_, _)
AddressBehind(addr, n) ==
    IF n = 0 \/ addr > LastAddress THEN addr
    ELSE AddressBehind(addr + InstructionSize(addr), n - 1)

\* The addresses of all instructions from addr on, 32 at a time.
RECURSIVE InstructionsFrom(_)
InstructionsFrom(addr) ==
    IF addr > LastAddress THEN {}
    ELSE InstructionsWithin(addr, 32) \cup InstructionsFrom(AddressBehind(addr, 32))

\* The instructions of the image that carry a code address.
Jumps ==
    {a \in InstructionsFrom(ReservedMemorySize) :
        ImageByte(a) \in {OpJmp, OpJz, OpJnz, OpCall}}

\* C14: in every image of a successful Compile the operand of every CALL,
\* JMP, JZ and JNZ is an address inside the image: base address <= target <
\* base address + image length.
C14_TargetsInsideImage ==
    JustCompiled =>
        \A a \in Jumps :
            /\ a + 4 <= LastAddress
            /\ ReadInt32(VM, a + 1) >= ReservedMemorySize
            /\ ReadInt32(VM, a + 1) <= LastAddress

\* Run has returned.
Finished == ~inRun /\ returned.call = "Run"

\* What one execution of a quotation body of Bodies makes of the data stack,
\* and what it writes.
BodyStack(body, s) ==
    IF body = PushSeven THEN Append(s, 7)
    ELSE IF body = AddOne THEN Append(Front(s), Add32(Top(s), 1))
    ELSE s

BodyOut(body) ==
    IF body = PrintEight THEN FormatD(8)
    ELSE IF body = EmitA THEN << 65 >>
    ELSE << >>

\* C15: cond [T] [F] ?: executes exactly one quotation, exactly once, T when
\* cond is nonzero and F when cond is zero, and removes cond and both
\* quotation addresses: the rest of the data stack is as it was, plus what
\* the executed branch produced.  With 9 beneath and 3 pushed behind:
C15_IfElse ==
    \A cond \in Conds, t \in Bodies, f \in Bodies :
        (source = IfElseSource(cond, t, f) /\ Finished)
        => LET chosen == IF cond # 0 THEN t ELSE f
           IN  /\ returned.err = Nil
               /\ stack = Append(BodyStack(chosen, << 9 >>), 3)
               /\ out = BodyOut(chosen)
               /\ returnStack = << >>

\* 9 0 [ 7 ] [ 8 . ] ?: 3 has run: the false branch has printed 8, the true
\* branch has pushed nothing.
C15_Witness ==
    /\ source = IfElseSource(0, PushSeven, PrintEight)
    /\ Finished
    /\ out = FormatD(8)
    /\ stack = << 9, 3 >>

\* C16: cond [body] ? executes body exactly once if cond is nonzero and not
\* at all if cond is zero; cond [body] !: executes body exactly once if cond
\* is zero and not at all otherwise; both remove cond and the quotation
\* address and leave the values beneath untouched except by body.  With 9
\* beneath and 3 pushed behind:
C16_IfAndUnless ==
    \A cond \in Conds, body \in Bodies, word \in {"?", "!:"} :
        (source = IfSource(cond, body, word) /\ Finished)
        => LET executed == IF word = "?" THEN cond # 0 ELSE cond = 0
           IN  /\ returned.err = Nil
               /\ stack = Append(IF executed THEN BodyStack(body, << 9 >>) ELSE << 9 >>, 3)
               /\ out = (IF executed THEN BodyOut(body) ELSE << >>)
               /\ returnStack = << >>

\* 9 0 [ 1 + ] !: 3 has run: the body has made 10 of the 9.
C16_Witness ==
    /\ source = IfSource(0, AddOne, "!:")
    /\ Finished
    /\ stack = << 10, 3 >>

\* Counts that bring n [ 0 > ] [ DUP 1 - ] |: to the limit of the data stack.
DeepCounts == {MaxStackSize - 3, MaxStackSize - 2}

\* The stack n, n-1, ..., low.
DownTo(n, low) == [i \in 1..(n - low + 1) |-> n + 1 - i]

\* C17: v [cond] [body] |: runs cond on a duplicate of the top of the stack
\* and pops its result; while the result is nonzero it runs body and
\* repeats; at the first zero it exits, with neither quotation address nor
\* the result left on the stack.  So 9 n [ limit < ] [ DUP . 1 + ] |: 3 prints
\* n, n+1, ..., limit-1 and ends with 9, the larger of n and limit, 3; and
\* n [ 0 > ] [ DUP 1 - ] |: ends with the stack n, n-1, ..., 1, 0 for every n
\* from 0 to MaxStackSize - 3, while for a larger n the loop traps on a full
\* data stack.
C17_While ==
    /\ \A n \in 0..MaxCount, limit \in {0, 3} :
           (source = CountUpSource(n, limit) /\ Finished)
           => /\ returned.err = Nil
              /\ stack = << 9, IF n < limit THEN limit ELSE n, 3 >>
              /\ out = [i \in 1..(IF n < limit THEN limit - n ELSE 0) |-> 48 + n + i - 1]
              /\ returnStack = << >>
    /\ \A n \in (0..MaxCount) \cup {MaxStackSize - 3} :
           (source = CountDownSource(n) /\ Finished)
           => /\ returned.err = Nil
              /\ stack = DownTo(n, 0)
              /\ out = << >>
              /\ returnStack = << >>
    /\ (source = CountDownSource(MaxStackSize - 2) /\ Finished)
       => /\ returned.err # Nil
          /\ stack = DownTo(MaxStackSize - 2, 0) \o << 0 >>

\* C17 as stated, for every n >= 0 of the model:
\* n [ 0 > ] [ DUP 1 - ] |: ends with the stack n, n-1, ..., 1, 0.
C17_WhileEveryCount ==
    \A n \in (0..MaxCount) \cup DeepCounts :
        (source = CountDownSource(n) /\ Finished)
        => /\ returned.err = Nil
           /\ stack = DownTo(n, 0)

\* The longest countdown that ends has run: 8189 [ 0 > ] [ DUP 1 - ] |: has
\* left 8189, ..., 1, 0 on the stack.
C17_Witness ==
    /\ source = CountDownSource(MaxStackSize - 3)
    /\ Finished
    /\ returned.err = Nil
    /\ Len(stack) = MaxStackSize - 2
    /\ Top(stack) = 0

\* What n executions of a quotation body of Bodies, one after the other, make
\* of the data stack, and what they write.
RECURSIVE TimesStack(_, _, _)
TimesStack(body, n, s) ==
    IF n = 0 THEN s ELSE TimesStack(body, n - 1, BodyStack(body, s))

RECURSIVE TimesOut(_, _)
TimesOut(body, n) ==
    IF n = 0 THEN << >> ELSE BodyOut(body) \o TimesOut(body, n - 1)

\* C18: init [body] n #: executes body exactly n times, for every count
\* n >= 0 and every body that leaves the values beneath its working value in
\* place, and then removes the quotation address and the counter, so that
\* only what body accumulated is left (0 [ 1 + ] n #: leaves n).  With 9
\* beneath and 3 pushed behind:
C18_Times ==
    \A body \in Bodies, n \in 0..MaxCount :
        (source = TimesSource(body, n) /\ Finished)
        => /\ returned.err = Nil
           /\ stack = Append(TimesStack(body, n, << 9, 0 >>), 3)
           /\ out = TimesOut(body, n)
           /\ returnStack = << >>

\* 9 0 [ 1 + ] 5 #: 3 has run: five additions have made 5 of the 0.
C18_Witness ==
    /\ source = TimesSource(AddOne, MaxCount)
    /\ Finished
    /\ stack = << 9, MaxCount, 3 >>

\* C19: x [body] keep executes body with a copy of x on top of the stack and
\* leaves the original x directly beneath what body made of the copy
\* (5 [ 1 + ] keep leaves 5 6); the quotation address is consumed.  With 9
\* beneath and 3 pushed behind:
C19_Keep ==
    \A x \in KeepValues, body \in Bodies :
        (source = KeepSource(x, body) /\ Finished)
        => /\ returned.err = Nil
           /\ stack = Append(BodyStack(body, << 9, x, x >>), 3)
           /\ out = BodyOut(body)
           /\ returnStack = << >>

\* 9 5 [ 1 + ] keep 3 has run: 5 is kept, its copy has become 6.
C19_Witness ==
    /\ source = KeepSource(5, AddOne)
    /\ Finished
    /\ stack = << 9, 5, 6, 3 >>

\* C20: a word token is resolved with the same precedence in the main body,
\* in the body of a definition and inside a quotation: a user-defined word is
\* tried before combinators and builtins, so a user word named like a builtin
\* is CALLed at every use behind its definition.  With @dup 7 ; (and with
\* @seven 7 ; for comparison) and 1 on the stack, each of the four uses leaves
\* 1 7, which the builtin DUP would not:
C20_SamePrecedence ==
    \A tokens \in WordSources :
        (source = tokens /\ Finished)
        => /\ returned.err = Nil
           /\ stack = << 1, 7 >>

\* The uses outside quotations, and every use of a word with a name of its
\* own, are CALLs of the user word.
C20_OutsideQuotations ==
    \A tokens \in PlainSources \cup {ShadowInMain, ShadowInDefinition} :
        (source = tokens /\ Finished)
        => /\ returned.err = Nil
           /\ stack = << 1, 7 >>

\* @dup 7 ; 1 [ dup ] call has run and left 1 1: the quotation holds the
\* builtin DUP.
C20_BuiltinInQuotation ==
    /\ source = ShadowInQuotation
    /\ Finished
    /\ stack = << 1, 1 >>

\* The value of f in the module that is current at the reference to f in the
\* sources of ModuleSources: the most recent MODULE directive before it.
ModuleAtReference(tokens) == IF tokens = ModuleMainBehind THEN 2 ELSE 1

\* C21: an unqualified word reference resolves against the module that is
\* current at the point of the reference in the source, the most recent
\* MODULE directive preceding it, in word definitions and in the main body
\* alike: each source of ModuleSources compiles and leaves the value of that
\* module's f.
C21_CurrentModule ==
    \A tokens \in ModuleSources :
        /\ (source = tokens /\ returned.call = "Compile") => returned.err = Nil
        /\ (source = tokens /\ Finished)
           => /\ returned.err = Nil
              /\ stack = << ModuleAtReference(tokens) >>

\* References in definitions, and references in the main body behind the last
\* MODULE directive of the source, resolve against the module current there.
C21_InDefinitionsAndBehind ==
    \A tokens \in {ModuleInDefinition, ModuleMainBehind} :
        /\ (source = tokens /\ returned.call = "Compile") => returned.err = Nil
        /\ (source = tokens /\ Finished)
           => /\ returned.err = Nil
              /\ stack = << ModuleAtReference(tokens) >>

\* MODULE a @f 1 ; f MODULE b @f 2 ; has run and left 2, the f of module b.
C21_LastModuleInMain ==
    /\ source = ModuleMainBetween
    /\ Finished
    /\ stack = << 2 >>

\* C23: quotations nested inside a quotation compile the same way inside a
\* word definition as in the main body: for every nesting depth the source
\* compiles, and the enclosing quotation pushes the real address of the nested
\* body in the quotation pool, so that calling the quotations down to the
\* innermost leaves its 7.
C23_NestedAlike ==
    \A d \in 1..MaxNesting :
        \A tokens \in {NestedInMain(d), NestedInDefinition(d)} :
            /\ (source = tokens /\ returned.call = "Compile") => returned.err = Nil
            /\ (source = tokens /\ Finished)
               => /\ returned.err = Nil
                  /\ stack = << 7 >>

\* In the main body every depth compiles and runs down to the innermost body;
\* in a definition a quotation without a nested one does.
C23_NestedInMain ==
    \A tokens \in {NestedInMain(d) : d \in 1..MaxNesting} \cup {NestedInDefinition(1)} :
        /\ (source = tokens /\ returned.call = "Compile") => returned.err = Nil
        /\ (source = tokens /\ Finished)
           => /\ returned.err = Nil
              /\ stack = << 7 >>

\* @w [ [ 7 ] call ] call ; w does not compile.
C23_NestedInDefinitionFails ==
    /\ source = NestedInDefinition(2)
    /\ returned = [call |-> "Compile", cont |-> FALSE,
                   err |-> Errorf("unexpected ] in quotation")]

\* C24: when two definitions have the same qualified name, the dictionary
\* holds exactly one entry for that name, pointing at the later definition,
\* and every main-body reference to the name CALLs the later definition: the
\* earlier definition stands at byte 5 of the image and takes 6 bytes, the
\* later one stands behind it, and each reference leaves 2.
C24_LaterDefinitionWins ==
    \A tokens \in RedefinitionSources :
        source = tokens
        => \E r \in {CompileTokens(tokens)} :
            \E name \in {IF tokens = TwiceInModule THEN "M::F" ELSE "F"} :
               /\ r.err = Nil
               /\ DOMAIN r.c.dictionary = {name}
               /\ r.c.dictionary[name].Address = ReservedMemorySize + 11
               /\ Finished
                  => /\ returned.err = Nil
                     /\ stack = (IF tokens = TwiceAroundUse THEN << 2, 2 >> ELSE << 2 >>)

\* @f 1 ; f @f 2 ; f has run: both references have called the later f.
C24_Witness ==
    /\ source = TwiceAroundUse
    /\ Finished
    /\ stack = << 2, 2 >>

Expanded(c, name) ==
    IF \E i \in 1..(Len(name) - 1) :
           /\ SubSeq(name, i, i + 1) = "::"
           /\ \A j \in 1..(i - 1) : SubSeq(name, j, j + 1) # "::"
           /\ SubSeq(name, 1, i - 1) \in DOMAIN c.imports
    THEN LET i == CHOOSE k \in 1..(Len(name) - 1) :
                      /\ SubSeq(name, k, k + 1) = "::"
                      /\ \A j \in 1..(k - 1) : SubSeq(name, j, j + 1) # "::"
         IN  << c.imports[SubSeq(name, 1, i - 1)] \o "::" \o SubSeq(name, i + 2, Len(name)) >>
    ELSE << >>

\* The names resolveWord is to try for a word name, in order of priority.
Candidates(c, wordName) ==
    LET name == ToUpper(wordName)
        plain == \A i \in 1..(Len(name) - 1) : SubSeq(name, i, i + 1) # "::"
    IN  << name >>
        \o (IF plain /\ c.currentModule # "" THEN << c.currentModule \o "::" \o name >>
            ELSE << >>)
        \o Expanded(c, name)

\* C22: resolveWord upper-cases the name and returns, in this order of
\* priority, the dictionary entry with exactly that name, for a name without
\* :: while a current module is set the entry current_module::name, and for a
\* name prefix::tail whose prefix is a registered import alias the entry
\* imports[prefix]::tail; otherwise it reports not found.
C22_ResolveOrder ==
    returned.call = "resolveWord"
    => LET names == Candidates(args.c, args.wordName)
           found == {i \in 1..Len(names) : names[i] \in DOMAIN args.c.dictionary}
       IN  IF found = {}
           THEN ~returned.ok
           ELSE /\ returned.ok
                /\ \E i \in found :
                      /\ \A j \in found : i <= j
                      /\ returned.word = args.c.dictionary[names[i]]

\* a::f has been resolved through the alias A of module N, with entries F and
\* M::F in the dictionary and M the current module.
C22_Witness ==
    /\ returned.call = "resolveWord"
    /\ args.wordName = "a::f"
    /\ args.c.currentModule = "M"
    /\ DOMAIN args.c.dictionary = {"F", "M::F", "N::F"}
    /\ returned.ok
    /\ returned.word.Name = "N::F"

\* C26: Compile returns an error and no bytecode at all, never a partial
\* image, for every source containing an unclosed string, an unclosed block
\* comment, an unclosed quotation, a ] with no open [, an @ inside a word
\* definition, a MODULE, IMPORT or AS with no following name, or a word that
\* resolves to nothing.
C26_NoPartialImage ==
    (returned.call = "Compile" /\ args.fn = "Compile" /\ args.input \in MalformedSources)
    => /\ returned.err # Nil
       /\ returned.bytecode = << >>

\* Compile has refused @sq dup * ; [ 1 [ 3 ] drop, whose first quotation is
\* not closed, behind a definition that compiles.
C26_Witness ==
    /\ returned.call = "Compile"
    /\ args.fn = "Compile"
    /\ args.input = "@sq dup * ; [ 1 [ 3 ] drop"
    /\ returned.err = Errorf("unclosed quotation")
    /\ returned.bytecode = << >>

\* The well-formed texts around the malformed ones compile.
C26_WellFormedCompile ==
    (returned.call = "Compile" /\ args.fn = "Compile" /\ args.input \in WellFormedSources)
    => /\ returned.err = Nil
       /\ returned.bytecode # << >>

\* The characters of a text.
Chars(text) == {SubSeq(text, i, i) : i \in 1..Len(text)}

\* The tokens of a text of word characters, whitespace and opening brackets
\* when every word is the maximal run up to the next whitespace or bracket.
RECURSIVE MaximalRuns(_, _)
MaximalRuns(text, run) ==
    LET ch == SubSeq(text, 1, 1)
        word == IF run = "" THEN << >> ELSE << Word(run) >>
    IN  IF text = "" THEN word \o << TokenEOF >>
        ELSE IF ch \in {" ", "\n"} THEN word \o MaximalRuns(SubSeq(text, 2, Len(text)), "")
        ELSE IF ch = "["
        THEN word \o << LBracket >> \o MaximalRuns(SubSeq(text, 2, Len(text)), "")
        ELSE MaximalRuns(SubSeq(text, 2, Len(text)), run \o ch)

\* C29: the text of a Word token is the maximal run of bytes up to the next
\* whitespace, [, ], ;, @, ", ( or ): every other byte, $ or a single : in any
\* position for example, is part of the word, never ends it early and never
\* causes a lexing error, wherever in the input the word starts.  For the
\* texts without digits, whose runs are all words:
C29_MaximalRun ==
    (returned.call = "Tokenize" /\ "first" \notin DOMAIN args
     /\ "1" \notin Chars(args.input))
    => /\ returned.err = Nil
       /\ returned.tokens = MaximalRuns(args.input, "")

\* Words of letters are maximal runs.
C29_Letters ==
    (returned.call = "Tokenize" /\ "first" \notin DOMAIN args
     /\ Chars(args.input) \subseteq {"a", " ", "\n", "["})
    => /\ returned.err = Nil
       /\ returned.tokens = MaximalRuns(args.input, "")

\* The word a:a at the start of the input is a lexing error.
C29_ColonOnFirstLine ==
    /\ returned.call = "Tokenize"
    /\ args.input = "a:a"
    /\ returned.err = Errorf("empty word")

\* The word a:a on the second line is one token.
C29_ColonOnSecondLine ==
    /\ returned.call = "Tokenize"
    /\ args.input = "\na:a"
    /\ returned.err = Nil
    /\ returned.tokens = << Word("a:a"), TokenEOF >>

\* C30: for every token sequence of Words, Numbers and brackets that Tokenize
\* produces, joining the token texts with single spaces and tokenizing that
\* text again succeeds and yields the same sequence of token kinds and texts.
C30_RoundTrip ==
    (returned.call = "Tokenize" /\ "first" \in DOMAIN args)
    => /\ returned.err = Nil
       /\ returned.tokens = args.first

\* The round trip of the token sequences without a colon.
C30_RoundTripWithoutColon ==
    (returned.call = "Tokenize" /\ "first" \in DOMAIN args /\ ":" \notin Chars(args.input))
    => /\ returned.err = Nil
       /\ returned.tokens = args.first

\* The tokens of a text with the word a: on its second line, written out on
\* one line, are a lexing error.
C30_ColonMovedToFirstLine ==
    /\ returned.call = "Tokenize"
    /\ "first" \in DOMAIN args
    /\ args.first = << Word("a:"), TokenEOF >>
    /\ args.input = "a:"
    /\ returned.err = Errorf("empty word")

\* ------------------------------------------------------------ properties of the REPL
\* The REPL after the lines of a session, from NewREPL.
RECURSIVE Session(_)
Session(lines) ==
    IF lines = << >> THEN NewREPL
    ELSE ReadLine(Session(SubSeq(lines, 1, Len(lines) - 1)), lines[Len(lines)]).repl

\* C27: when evaluating a REPL line fails with a compile error or a runtime
\* error, the saved stack, the history and the definition list are exactly
\* what they were before the line was entered.
C27_ErrorLeavesREPL ==
    [][(returned'.call = "evaluate" /\ returned'.err # Nil) => repl' = repl]_vars

\* A line has failed in the VM while the REPL held a history and a stack.
C27_Witness ==
    /\ returned.call = "evaluate"
    /\ Len(returned.err) > 0
    /\ returned.err[1] = "Runtime error"
    /\ args = << "@sq dup * ;", " -5 3 ", "1 0 /" >>
    /\ repl.stack = << -5, 3 >>
    /\ repl.history = "@sq dup * ;\n"

\* A line has failed in the compiler while the REPL held a stack.
C27_CompileError ==
    /\ returned.call = "evaluate"
    /\ Len(returned.err) > 0
    /\ returned.err[1] = "Compile error"
    /\ repl.stack # << >>

\* strings.Contains
ContainsText(s, sub) ==
    \E i \in 1..(Len(s) - Len(sub) + 1) : SubSeq(s, i, i + Len(sub) - 1) = sub

\* The text goes to evaluate: it is neither blank nor a REPL command.
Evaluated(text) == TrimSpace(text) # "" /\ TrimSpace(text) \notin Commands

\* The line is taken as a word definition.
IsDefinition(text) == HasPrefix(TrimSpace(text), "@")

\* The line holds no word definition and no MODULE or IMPORT directive.
DefinesNothing(text) ==
    /\ ~Contains(text, "@")
    /\ ~ContainsText(ToUpper(text), "MODULE")
    /\ ~ContainsText(ToUpper(text), "IMPORT")

\* The line holds no line comment.
NoLineComment(text) == ~ContainsText(text, "//")

\* The last two lines read, and the REPL before them.
LineA == TrimSpace(args[Len(args) - 1])
LineB == TrimSpace(args[Len(args)])
Prior == Session(SubSeq(args, 1, Len(args) - 2))

\* The saved stack after the single line 'A B' from the prior state.
SingleLineStack == ReadLine(Prior, LineA \o " " \o LineB).repl.stack

C28_SecondLineFails ==
    /\ args = << " -5 3 ", "1 0 /" >>
    /\ repl.stack = << -5, 3 >>
    /\ SingleLineStack = << >>

\* Line A ends in a line comment, which takes line B in the single line.
C28_LineComment ==
    /\ args = << "1 // c", " -5 3 " >>
    /\ returned.err = Nil
    /\ repl.stack = << 1, -5, 3 >>
    /\ SingleLineStack = << 1 >>

\* Line A defines the word again: in the single line B calls the new one.
C28_DefinitionInLine ==
    /\ args = << "@sq dup * ;", "4 @sq 7 ;", "sq" >>
    /\ returned.err = Nil
    /\ repl.stack = << 16 >>
    /\ SingleLineStack = << 4, 7 >>

\* ------------------------------------------------------------ properties of reserved memory
\* The call that has just returned was one of the two reserved-memory methods.
ReservedCalled == returned.call \in {"WriteReservedMemory", "ReadReservedMemory"}

\* offset + size <= reservedSize for the uint32 values offset and size, the
\* sum taken without wrap-around.
InsideReserved(offset, size, reservedSize) ==
    /\ 0 <= offset /\ offset <= reservedSize
    /\ 0 <= size /\ size <= reservedSize
    /\ offset + size <= reservedSize

\* C31: WriteReservedMemory and ReadReservedMemory succeed only if the whole
\* requested range lies inside reserved memory (offset + length <= reserved
\* size, with no 32-bit wrap-around in the sum) and otherwise return an error
\* without reading or writing any memory, for every 32-bit offset and size.
C31_ReservedRange ==
    [][ReservedCalled'
        => \/ InsideReserved(args'.offset, args'.size, userMemoryStart)
           \/ returned'.err # Nil /\ ~returned'.panic /\ memory' = memory]_vars

\* C31 for the calls whose offset + length does not pass 2^32.
C31_WithoutWrap ==
    [][(ReservedCalled' /\ ~UintLess(Add32(args'.offset, args'.size), args'.offset))
        => \/ InsideReserved(args'.offset, args'.size, userMemoryStart)
           \/ returned'.err # Nil /\ ~returned'.panic /\ memory' = memory]_vars

\* A read whose offset + size wraps to a value inside the reserved region
\* returns no error: it panics.
C31_ReadPanics ==
    /\ returned.call = "ReadReservedMemory"
    /\ args.offset = ReservedSize - 3
    /\ args.size = -(ReservedSize - 3)
    /\ returned.err = Nil
    /\ returned.panic

\* A write whose offset + length wraps succeeds and writes the program behind
\* the reserved region.
C31_WriteOutside ==
    /\ returned.call = "WriteReservedMemory"
    /\ args.offset = ReservedSize - 3
    /\ args.size = -(ReservedSize - 3)
    /\ args.byte = 7
    /\ returned.err = Nil
    /\ memory[Len(memory)] = 7

\* A range inside the reserved region is written and read back.
C31_InsideWitness ==
    /\ returned.call = "ReadReservedMemory"
    /\ args.offset = ReservedSize - 3
    /\ args.size = 3
    /\ returned.err = Nil
    /\ returned.result = << 7, 7, 7 >>
    /\ memory[ReservedSize - 3] = 0

\* A range that ends behind the reserved region, without wrap-around, is an
\* error.
C31_BehindWitness ==
    /\ returned.call = "WriteReservedMemory"
    /\ args.offset = ReservedSize - 3
    /\ args.size = 4
    /\ args.byte = 7
    /\ returned.err = Errorf("reserved memory write would overflow")

\* ------------------------------------------------------------ properties of the quotation addresses
\* The image holds a PUSH of the value at the address.
PushAt(addr, value) == ImageByte(addr) = OpPush /\ ReadInt32(VM, addr + 1) = value

\* The quotation at index i was opened inside another quotation: its
\* placeholder counts the quotations before it.
NestedPlaceholder(c, i) == c.quotations[i].TempAddr = 4096 + (i - 1) * 256

\* C32: each quotation gets a placeholder address different from every other
\* quotation's placeholder, and after compilation the PUSH emitted at the site
\* of each [ carries the real address of that quotation's own body: at
\* placeholder - 5 for a [ of the main body or of a definition, and in the
\* quotation bodies for a nested [.
C32_OwnAddress ==
    JustCompiled =>
        \A c \in {CompileTokens(source).c} :
            /\ \A i, j \in DOMAIN c.quotations :
                   i # j => c.quotations[i].TempAddr # c.quotations[j].TempAddr
            /\ \A i \in DOMAIN c.quotations :
                   IF NestedPlaceholder(c, i)
                   THEN \E addr \in PoolStart(c)..(LastAddress - 5) :
                            PushAt(addr, c.quotations[i].Address)
                   ELSE PushAt(c.quotations[i].TempAddr - 5, c.quotations[i].Address)

\* C32 for the sources whose main body is shorter than 251 bytes.
C32_ShortSources ==
    (JustCompiled /\ source # NestedOneFarTwo) =>
        \A c \in {CompileTokens(source).c} :
            /\ \A i, j \in DOMAIN c.quotations :
                   i # j => c.quotations[i].TempAddr # c.quotations[j].TempAddr
            /\ \A i \in DOMAIN c.quotations :
                   IF NestedPlaceholder(c, i)
                   THEN \E addr \in PoolStart(c)..(LastAddress - 5) :
                            PushAt(addr, c.quotations[i].Address)
                   ELSE PushAt(c.quotations[i].TempAddr - 5, c.quotations[i].Address)

\* The quotations [ 1 ] and [ 2 ] have one placeholder, and calling [ 1 ]
\* runs the body of [ 2 ].
C32_SharedPlaceholder ==
    /\ source = NestedOneFarTwo
    /\ Finished
    /\ returned.err = Nil
    /\ stack = << 2 >>
    /\ \E c \in {CompileTokens(source).c} :
          c.quotations[2].TempAddr = c.quotations[3].TempAddr

\* With the last quotation near the others each call runs its own body.
C32_OwnBodies ==
    /\ source = NestedOneTwo
    /\ Finished
    /\ returned.err = Nil
    /\ stack = << 1, 2 >>

\* C33: address patching changes only the operands of the PUSH instructions
\* that were emitted for quotations; the operand of every PUSH emitted for a
\* number literal, and every other byte of the image, bytes that merely follow
\* a 0x00 byte inside another instruction included, is the same after patching
\* as before, so a number literal n always pushes n at run time.
C33_LiteralsKept ==
    /\ \A n \in Literals :
           (source = LiteralBehindQuotation(n) /\ JustCompiled)
           => /\ PushAt(ReservedMemorySize + 11, n)
              /\ PushAt(ReservedMemorySize + 5, CompileTokens(source).c.quotations[1].Address)
    /\ \A n \in Literals :
           (source = LiteralBehindQuotation(n) /\ Finished)
           => returned.err = Nil /\ stack = << n >>
    /\ (source = ModBehindQuotation /\ JustCompiled)
       => /\ PushAt(ReservedMemorySize + 16, 16)
          /\ ImageByte(ReservedMemorySize + 21) = OpMod
    /\ (source = ModBehindQuotation /\ Finished)
       => returned.err = Nil /\ stack = << 4 >>

\* C33 for the literals that are no placeholder of the source.
C33_OtherLiterals ==
    \A n \in Literals \ {4106} :
        /\ (source = LiteralBehindQuotation(n) /\ JustCompiled)
           => /\ PushAt(ReservedMemorySize + 11, n)
              /\ PushAt(ReservedMemorySize + 5, CompileTokens(source).c.quotations[1].Address)
        /\ (source = LiteralBehindQuotation(n) /\ Finished)
           => returned.err = Nil /\ stack = << n >>

\* The literal 4106 behind a quotation with the placeholder 4106 pushes the
\* address of the quotation.
C33_LiteralPatched ==
    /\ source = LiteralBehindQuotation(4106)
    /\ Finished
    /\ returned.err = Nil
    /\ stack = << CompileTokens(source).c.quotations[1].Address >>
    /\ stack # << 4106 >>

\* In 20 16 mod behind that quotation the byte of MOD is patched.
C33_InstructionPatched ==
    /\ source = ModBehindQuotation
    /\ JustCompiled
    /\ PushAt(ReservedMemorySize + 16, 16)
    /\ ImageByte(ReservedMemorySize + 21) # OpMod

\* ------------------------------------------------------------ properties of the loop sites
\* The sites compiled without error.
SitesCompiled ==
    IF returned.err = Nil THEN DOMAIN args.sites ELSE DOMAIN args.sites \ {Len(args.sites)}

\* The two slots of a site, read from the operands of the two STOREs that
\* open the code of |: and follow DUP, JZ and DEC in the code of #:.
SlotsOf(i) ==
    LET site == args.sites[i]
        first == IF site.name = "|:" THEN site.offset + 1 ELSE site.offset + 8
    IN  {DecodeInt32(SubSeq(args.c.bytecode, first + 1, first + 4)),
         DecodeInt32(SubSeq(args.c.bytecode, first + 6, first + 9))}

\* The bytes of a slot.
SlotBytes(slot) == slot..(slot + 3)

\* Every site compiled has two slots inside reserved memory that no other
\* site shares, and a site is an error exactly when its slots do not fit.
SlotsApart ==
    /\ \A i \in SitesCompiled :
           /\ Cardinality(SlotsOf(i)) = 2
           /\ \A slot \in SlotsOf(i) : slot >= 0 /\ slot + 4 <= ReservedMemorySize
           /\ \A a, b \in SlotsOf(i) : a # b => SlotBytes(a) \cap SlotBytes(b) = {}
           /\ \A j \in SitesCompiled \ {i} :
                  \A a \in SlotsOf(i), b \in SlotsOf(j) : SlotBytes(a) \cap SlotBytes(b) = {}
    /\ returned.call = "compileCombinator"
       => (returned.err # Nil
           <=> args.c.tempAlloc > ReservedMemorySize)

\* C34: the reserved-memory allocation cursor never exceeds 4096 in any
\* compiler state, including the state in which a reserved-memory overflow
\* error is reported; every |: and #: site receives two 4-byte slots inside
\* [0, 4096) that no other site shares, and a site whose slots would not fit
\* is a compile error.
C34_CursorAndSlots ==
    /\ args.c.tempAlloc <= ReservedMemorySize
    /\ SlotsApart

\* C34 without the state in which the overflow is reported.
C34_UntilOverflow ==
    /\ returned.err = Nil => args.c.tempAlloc <= ReservedMemorySize
    /\ SlotsApart

\* The site behind the last slots is an error, and the cursor is 4100.
C34_CursorAtError ==
    /\ returned = [call |-> "compileCombinator", cont |-> FALSE,
                   err |-> Errorf("reserved memory overflow")]
    /\ Len(args.sites) = 3
    /\ args.c.tempAlloc = ReservedMemorySize + 4

\* The last two slots of reserved memory are taken.
C34_LastSlots ==
    /\ returned = [call |-> "compileCombinator", cont |-> FALSE, err |-> Nil]
    /\ Len(args.sites) = 2
    /\ args.sites[2].name = "#:"
    /\ SlotsOf(2) = {ReservedMemorySize - 8, ReservedMemorySize - 4}
    /\ args.c.tempAlloc = ReservedMemorySize

\* ------------------------------------------------------------ properties of the traps
\* The opcode byte of the instruction at pc.
Fetched == memory[pc + 1]

\* C35: a trapping instruction has no partial effect: when any instruction
\* traps, the data stack, the return stack and memory are exactly as they were
\* before that instruction was fetched (operands are not consumed by a DIV or
\* MOD by zero, by an out-of-bounds STORE, or by a CALLSTACK to an invalid
\* address).
C35_TrapHasNoEffect ==
    [][TrappedNext => /\ stack' = stack
                      /\ returnStack' = returnStack
                      /\ memory' = memory]_vars

\* The instructions that trap after they have popped an operand.
PopsBeforeTrap == {OpDiv, OpMod, OpStore, OpCallStack}

\* C35 for the traps of the other instructions.
C35_OtherTraps ==
    [][(TrappedNext /\ ~UintGE(pc, Len(memory)) /\ Fetched \notin PopsBeforeTrap)
        => /\ stack' = stack
           /\ returnStack' = returnStack
           /\ memory' = memory]_vars

\* A trap leaves the return stack and memory as they were.
C35_ReturnStackAndMemory ==
    [][TrappedNext => returnStack' = returnStack /\ memory' = memory]_vars

\* A DIV by zero has trapped, and of its two operands one is left.
C35_DivisorConsumed ==
    /\ Trapped
    /\ \E i \in DOMAIN returned.err : returned.err[i] = "division by zero"
    /\ memory[pc] = OpDiv
    /\ Len(stack) = 1

\* A STORE to an address outside memory has trapped, and its value is gone.
C35_StoredValueConsumed ==
    /\ Trapped
    /\ \E i \in DOMAIN returned.err : returned.err[i] = "store address out of bounds"
    /\ memory[pc] = OpStore
    /\ stack = << >>

\* A CALLSTACK to an address outside memory has trapped, and the address is
\* gone.
C35_TargetConsumed ==
    /\ Trapped
    /\ \E i \in DOMAIN returned.err : returned.err[i] = "callstack failed: address out of bounds"
    /\ memory[pc] = OpCallStack
    /\ stack = << >>

\* ------------------------------------------------------------ properties of the methods
\* The VM behind the fetch of the instruction at pc.
FetchedVM == [VM EXCEPT !.pc = @ + 1]

\* What the public method of an opcode makes of the VM behind the fetch; Push
\* takes the operand as its argument and leaves pc alone.
MethodOf(op, f) ==
    CASE op = OpPush -> LET r == Push(f, ReadInt32(f, f.pc))
                        IN  Return([r.vm EXCEPT !.pc = @ + 4], r.err)
      [] op = OpCallStack -> CallStack(f)
      [] op = OpCall -> Call(f)
      [] op = OpRet -> Ret(f)
      [] op = OpJmp -> Jmp(f)
      [] op = OpJz -> Jz(f)
      [] op = OpJnz -> Jnz(f)

\* The step executes op, and from the same state the method traps exactly
\* when the opcode does and otherwise yields the same stacks and pc.
SameAsMethod(op) ==
    (Executes(op) /\ (op = OpPush => HasOperand))
    => \E r \in {MethodOf(op, FetchedVM)} :
          /\ (r.err # Nil) <=> TrappedNext
          /\ r.err = Nil => /\ r.vm.stack = stack'
                            /\ r.vm.returnStack = returnStack'
                            /\ r.vm.pc = pc'

\* C36: for each operation that exists both as a public VM method (Push,
\* CallStack, Call, Ret, Jmp, Jz, Jnz) and as an opcode case in
\* ExecuteInstruction, the method and the opcode behave identically from the
\* same starting state: they trap under the same conditions and otherwise
\* produce the same stacks and PC.
C36_MethodsAndOpcodes ==
    [][\A op \in {OpPush, OpCallStack, OpCall, OpRet, OpJmp, OpJz, OpJnz} :
           SameAsMethod(op)]_vars

\* C36 for Ret, Jmp, Jz and Jnz.
C36_JumpsAndRet ==
    [][\A op \in {OpRet, OpJmp, OpJz, OpJnz} : SameAsMethod(op)]_vars

\* C36 for Push, CallStack and Call away from full stacks and from targets in
\* reserved memory.
C36_AwayFromLimits ==
    [][\A op \in {OpPush, OpCallStack, OpCall} :
           (/\ Len(stack) < MaxStackSize
            /\ Len(returnStack) < MaxStackSize
            /\ (op = OpCallStack /\ stack # << >>)
               => (Top(stack) < 0 \/ Top(stack) >= userMemoryStart))
           => SameAsMethod(op)]_vars

\* The PUSH opcode has pushed onto a full data stack, where the method traps.
C36_PushOnFullStack ==
    /\ Len(stack) = MaxStackSize + 1
    /\ ~Trapped

\* The CALLSTACK opcode has trapped on a target in reserved memory, which the
\* method accepts.
C36_TargetInReservedMemory ==
    /\ Trapped
    /\ \E i \in DOMAIN returned.err : returned.err[i] = "callstack failed: address out of bounds"
    /\ pc >= 6
    /\ memory[pc] = OpCallStack
    /\ memory[pc - 5] = OpPush
    /\ ReadInt32(VM, pc - 5) \in 0..(userMemoryStart - 1)

\* ------------------------------------------------------------ properties of re-entered loops
\* C37: loop state of `#:` and `|:` is private to each running loop: if the
\* body of a running loop executes, through a called word, the same compiled
\* loop site again, then after the inner loop finishes the outer loop still
\* runs its remaining iterations with its own quotation address and counter
\* (so `@rep 3 #: ; 0 [ [ 1 + ] rep ] rep` leaves 9).
C37_LoopStatePrivate ==
    (source \in {RepInRep, RepInRepByWord} /\ Finished)
    => (returned.err = Nil /\ stack = << 9 >>)

\* With the inner loop at a compile site of its own, three times three
\* increments are made.
C37_OwnSites ==
    (source = Rep2InRep /\ Finished) => (returned.err = Nil /\ stack = << 9 >>)

\* The loop in its own body has finished after three increments: the outer
\* loop found the counter of the inner one, zero.
C37_OuterCutShort ==
    /\ source = RepInRep
    /\ Finished
    /\ returned.err = Nil
    /\ stack = << 3 >>

\* The outer loop is back from the first call of its body, and its slots in
\* reserved memory hold the zero and the quotation of the inner loop.
C37_SlotsOverwritten ==
    /\ source = RepInRepByWord
    /\ inRun
    /\ stack = << 3 >>
    /\ ReadInt32(VM, 4) = 0
    /\ \E r \in {CompileTokens(RepInRepByWord)} :
          /\ ReadInt32(VM, 0) = r.c.quotations[1].Address
          /\ ReadInt32(VM, 0) # r.c.quotations[2].Address

\* ------------------------------------------------------------ properties of negative counts
\* The run is at the first instruction of the first quotation of the source.
InBody == inRun /\ pc = CompileTokens(source).c.quotations[1].Address

\* C38: for a negative count n, `init [body] n #:` executes body zero times
\* and terminates leaving only init on the stack; the loop never counts down
\* through the 32-bit wrap-around.
C38_NegativeCount ==
    source \in NegativeTimesSources
    => /\ ~InBody
       /\ Finished => (returned.err = Nil /\ stack = << 0 >>)

\* C38 for the count 0.
C38_ZeroCount ==
    \A body \in Bodies :
        source = TimesSource(body, 0)
        => /\ ~InBody
           /\ Finished => (returned.err = Nil /\ stack = << 9, 0, 3 >>)

\* The body of a loop with the count -1 is being run a second time: init is
\* dropped and the counter in its slot has gone down to -3.
C38_BodyRunsAgain ==
    /\ source = NegativeTimesSource(-1)
    /\ InBody
    /\ stack = << >>
    /\ ReadInt32(VM, 4) = -3

\* The loop with the count -1 has ended in the trap of its body.
C38_EndsInTrap ==
    /\ source = NegativeTimesSource(-1)
    /\ Finished
    /\ returned.err # Nil
    /\ stack = << >>

\* The counter of a loop with the lowest count has wrapped around.
C38_WrappedAround ==
    /\ source = NegativeTimesSource(MinInt32)
    /\ InBody
    /\ ReadInt32(VM, 4) = MaxInt32

\* ------------------------------------------------------------ properties of combinators in quotations
Accepted == {"call", "dip", "keep"}

\* The compiler has accepted the source, and the code of its quotation d is
\* what the combinator emits at top level, and RET.
LoweredAsAtTopLevel(name, d) ==
    /\ returned.err = Nil
    /\ \E r \in {CompileTokens(source)} :
          r.c.quotations[d].Code
              = compileCombinator(NewCompiler(<< >>), name).c.bytecode \o << OpRet >>

RejectedInQuotation ==
    returned.err = Errorf("combinator not yet supported in quotations")

\* What the claim says of the combinator name in the quotation d deep.
AsInQuotation(name, d) ==
    IF name \in Accepted THEN LoweredAsAtTopLevel(name, d) ELSE RejectedInQuotation

\* C39: inside a quotation at any nesting depth (in the main body or in a
\* word definition) the combinators `?`, `?:`, `!:`, `|:` and `#:` are
\* rejected with a compile error, while CALL, DIP and KEEP are accepted and
\* lowered to the same instructions as at top level.
C39_InQuotations ==
    \A name \in QuotedCombinators, d \in QuotedDepths :
        /\ (source = CombinatorInMain(name, d) /\ returned.call = "Compile")
           => AsInQuotation(name, d)
        /\ (source = CombinatorInDefinition(name, d) /\ returned.call = "Compile")
           => AsInQuotation(name, d)

\* C39 in the main body at every depth, and in a quotation of a word
\* definition that holds no other quotation.
C39_WhereNestingCompiles ==
    \A name \in QuotedCombinators :
        /\ \A d \in QuotedDepths :
              (source = CombinatorInMain(name, d) /\ returned.call = "Compile")
              => AsInQuotation(name, d)
        /\ (source = CombinatorInDefinition(name, 1) /\ returned.call = "Compile")
           => AsInQuotation(name, 1)

\* The five combinators are rejected wherever the quotation is, at every depth.
C39_FiveRejected ==
    \A name \in QuotedCombinators \ Accepted, d \in QuotedDepths :
        (source \in {CombinatorInMain(name, d), CombinatorInDefinition(name, d)})
        => RejectedInQuotation

\* KEEP two quotations deep in the main body is compiled to SWAP DUP ROT
\* CALLSTACK RET.
C39_KeepNestedInMain ==
    /\ source = CombinatorInMain("keep", 2)
    /\ JustCompiled
    /\ CompileTokens(source).c.quotations[2].Code
           = << OpSwap, OpDup, OpRot, OpCallStack, OpRet >>

\* `#:` in the quotation of a word definition is rejected.
C39_TimesInDefinition ==
    /\ source = CombinatorInDefinition("#:", 1)
    /\ RejectedInQuotation

\* CALL two quotations deep in a word definition: the compiler rejects the
\* closing bracket of the outer quotation.
C39_CallNestedInDefinition ==
    /\ source = CombinatorInDefinition("call", 2)
    /\ returned.call = "Compile"
    /\ returned.err # Nil
    /\ ~RejectedInQuotation

\* ------------------------------------------------------------ properties of the history
\* Every line read so far is one of `lines`.
ReadOnly(lines) == \A i \in 1..Len(args) : args[i] \in lines

\* A comment has been read and evaluated.
CommentRead == Len(args') = Len(args) + 1 /\ args'[Len(args')] \in CommentLines

\* Evaluating the comment has succeeded and left the saved stack as it was.
CommentKeepsStack == returned'.err = Nil /\ repl'.stack = repl.stack

\* C40: re-running the accumulated REPL history never changes the data stack:
\* after any sequence of lines accepted as definitions (lines that begin with
\* `@` and contain `;`), evaluating a line that contains only a comment
\* succeeds and leaves the saved stack exactly as it was.
C40_HistoryKeepsStack ==
    [][(ReadOnly(DefinitionLines) /\ CommentRead) => CommentKeepsStack]_vars

\* C40 after lines that hold one definition and nothing else, after comments
\* and after a number.
C40_DefinitionsAlone ==
    [][(ReadOnly({"@sq dup * ;", "5"} \cup CommentLines) /\ CommentRead)
       => CommentKeepsStack]_vars

\* After `@f 1 ; 2` two comments have been evaluated, and each has pushed the
\* 2 of the history.
C40_HistoryPushes ==
    /\ args = << "@f 1 ; 2", "// c", "( c )" >>
    /\ returned.err = Nil
    /\ repl.stack = << 2, 2 >>

\* After `@g ] ;` the comment does not compile.
C40_HistoryFails ==
    /\ args = << "@g ] ;", "// c" >>
    /\ returned.err # Nil
    /\ Head(returned.err) = "Compile error"

\* After a definition and a number the comment leaves the saved 5.
C40_CommentAfterNumber ==
    /\ args = << "@sq dup * ;", "5", "( c )" >>
    /\ returned.err = Nil
    /\ repl.stack = << 5 >>

====
